---- MODULE Spec2Model ----
(***************************************************************************)
(* FlickPick session engine (server/src/session.ts, server/src/index.ts,   *)
(* server/src/plex.ts): session lifecycle, preference overlap, candidate   *)
(* selection with bounded enrichment, navigation cursor, votes and tally.  *)
(*                                                                         *)
(* Encoding of JavaScript values:                                          *)
(*   - a nullable object (preferences, range, result, matchedCriteria) is  *)
(*     a sequence of length <= 1: <<>> is null, <<x>> is the object x;     *)
(*   - a nullable number (a rating, a threshold) is an integer, Null = -1; *)
(*   - a nullable string (imdbId, backdrop) is a string, "" is null;       *)
(*   - an object used as a map (session.users) is the sequence of its      *)
(*     entries in key order, which is insertion order for the non-index    *)
(*     string keys the client generates;                                   *)
(*   - an array of strings used as a set (genres) is a set;                *)
(*   - a Map or an object used as a map with arbitrary keys (sessions,     *)
(*     votes, ratingsCache) is a function whose domain is its key set;     *)
(*   - a session object has an identity (an index of `heap`): the map      *)
(*     `sessions` holds references, and a suspended calculateMatch keeps   *)
(*     its reference when the map entry is deleted or replaced.            *)
(* Time is counted in units of 12 hours.                                   *)
(***************************************************************************)
EXTENDS Integers, Sequences, FiniteSets, TLC

VARIABLES
    sessions,      \* session.ts `sessions`: code -> reference into heap (0: no entry)
    heap,          \* the Session objects
    ratingsCache,  \* plex.ts `ratingsCache`: cache key -> entry
    cacheFile,     \* plex.ts CACHE_FILE: the entries of ratings-cache.json
    catalog,       \* the movies the Plex library returns to getAllMovies
    reqs,          \* GET /result requests suspended inside calculateMatch
    now,           \* the clock
    ret            \* the response of the last request handled

vars == <<sessions, heap, ratingsCache, cacheFile, catalog, reqs, now, ret>>

-----------------------------------------------------------------------------
(* Bounds *)

MaxReqs == 2       \* GET /result requests that can be in flight together
MaxTime == 3       \* the clock stops here

(* Program constants *)

MinMovieCount == 5
MaxMovieCount == 100
DefaultMovieCount == 25
MaxAge == 2        \* 24 hours, in units of 12 hours

Null == -1
Absent == -2       \* a field a legacy cache entry does not have (undefined)
NaN == -3          \* the number NaN; no size or count of the model is -3

Codes == {"AAAAAA", "BBBBBB"}
UserIds == {"u1", "u2", "u3"}
ReqIds == 1 .. MaxReqs
ObjIds == 1 .. (Cardinality(Codes) + MaxReqs + 1)

-----------------------------------------------------------------------------
(* Generic helpers *)

Min(a, b) == IF a < b THEN a ELSE b
Max(a, b) == IF a > b THEN a ELSE b

\* Math.min and Math.max: NaN as soon as one argument is NaN
MathMin(a, b) == IF a = NaN \/ b = NaN THEN NaN ELSE Min(a, b)
MathMax(a, b) == IF a = NaN \/ b = NaN THEN NaN ELSE Max(a, b)

\* ToNumber of a string, as Math.max applies it to an argument that is one:
\* the number a numeric text denotes, 0 for the empty string, NaN otherwise
StringToNumber(text) ==
    CASE text = "" -> 0
      [] text = "7" -> 7
      [] text = "50" -> 50
      [] text = "500" -> 500
      [] OTHER -> NaN

Range(s) == {s[i] : i \in DOMAIN s}

Some(x) == <<x>>
None == <<>>

\* all orders a Fisher-Yates shuffle can leave an array in
Shuffles(s) ==
    {[i \in 1 .. Len(s) |-> s[p[i]]] : p \in Permutations(1 .. Len(s))}

\* Array.prototype.filter
RECURSIVE FilterSeq(_, _)
FilterSeq(s, keep) ==
    IF s = <<>> THEN <<>>
    ELSE IF Head(s) \in keep THEN <<Head(s)>> \o FilterSeq(Tail(s), keep)
    ELSE FilterSeq(Tail(s), keep)

-----------------------------------------------------------------------------
(* Movies, as getAllMovies builds them: ratings start null *)

Movie(id, title, year, genres, runtime, watched) ==
    [id |-> id, title |-> title, year |-> year, genres |-> genres,
     runtime |-> runtime, watched |-> watched,
     imdbRating |-> Null, rtCriticRating |-> Null, rtAudienceRating |-> Null,
     tmdbRating |-> Null, imdbId |-> "", backdrop |-> ""]

\* users[userId] for a users map kept as a sequence of entries
UserIndex(users, userId) ==
    IF \E i \in DOMAIN users : users[i].id = userId
    THEN CHOOSE i \in DOMAIN users : users[i].id = userId
    ELSE 0

HasUser(users, userId) == UserIndex(users, userId) # 0

-----------------------------------------------------------------------------
(* session.ts: synchronous operations on one Session object *)

\* createSession: the object it builds (movieCount is <<>> when the caller
\* passes undefined, and the default parameter value applies; otherwise it
\* holds the number Math.max makes of the value the request body carried)
NewSession(code, movieCount, t) ==
    LET mc == IF movieCount = None THEN DefaultMovieCount ELSE movieCount[1]
    IN [code |-> code,
        createdAt |-> t,
        movieCount |-> MathMin(MathMax(mc, MinMovieCount), MaxMovieCount),
        users |-> <<>>,
        result |-> None,
        matchedMovies |-> <<>>,
        currentIndex |-> 0,
        matchedCriteria |-> None]

NewUser(userId, name, t) ==
    [id |-> userId, name |-> name, preferences |-> None, joinedAt |-> t,
     votes |-> <<>>, votingComplete |-> FALSE]

\* bug variant: the capacity test lets a third user in
joinSession_ThreeUsers(session, userId, name, t) ==
    IF Len(session.users) > 2 /\ ~HasUser(session.users, userId)
    THEN [ok |-> FALSE, session |-> session]
    ELSE IF ~HasUser(session.users, userId)
    THEN [ok |-> TRUE,
          session |-> [session EXCEPT
                         !.users = Append(@, NewUser(userId, name, t))]]
    ELSE [ok |-> TRUE, session |-> session]

\* bug variant: a repeated join overwrites the stored name
joinSession_Rename(session, userId, name, t) ==
    IF Len(session.users) >= 2 /\ ~HasUser(session.users, userId)
    THEN [ok |-> FALSE, session |-> session]
    ELSE IF ~HasUser(session.users, userId)
    THEN [ok |-> TRUE,
          session |-> [session EXCEPT
                         !.users = Append(@, NewUser(userId, name, t))]]
    ELSE [ok |-> TRUE,
          session |-> [session EXCEPT
                         !.users[UserIndex(session.users, userId)].name = name]]

\* bug variant: a new user takes the place of the second user of a full
\* session
joinSession_Evict(session, userId, name, t) ==
    IF Len(session.users) >= 2 /\ ~HasUser(session.users, userId)
    THEN [ok |-> FALSE,
          session |-> [session EXCEPT
                         !.users[2] = NewUser(userId, name, t)]]
    ELSE IF ~HasUser(session.users, userId)
    THEN [ok |-> TRUE,
          session |-> [session EXCEPT
                         !.users = Append(@, NewUser(userId, name, t))]]
    ELSE [ok |-> TRUE, session |-> session]

\* joinSession on an existing session: [ok, session]
joinSession(session, userId, name, t) ==
    IF Len(session.users) >= 2 /\ ~HasUser(session.users, userId)
    THEN [ok |-> FALSE, session |-> session]
    ELSE IF ~HasUser(session.users, userId)
    THEN [ok |-> TRUE,
          session |-> [session EXCEPT
                         !.users = Append(@, NewUser(userId, name, t))]]
    ELSE [ok |-> TRUE, session |-> session]

\* bug variant: a user who has not joined is added with the preferences
submitPreferences_AutoJoin(session, userId, preferences) ==
    LET i == UserIndex(session.users, userId)
    IN IF i = 0
       THEN [ok |-> TRUE,
             session |-> [session EXCEPT
                            !.users = Append(@,
                              [NewUser(userId, "", 0) EXCEPT
                                 !.preferences = Some(preferences)])]]
       ELSE [ok |-> TRUE,
             session |-> [session EXCEPT
                            !.users[i].preferences = Some(preferences)]]

\* submitPreferences on an existing session: [ok, session]
submitPreferences(session, userId, preferences) ==
    LET i == UserIndex(session.users, userId)
    IN IF i = 0
       THEN [ok |-> FALSE, session |-> session]
       ELSE [ok |-> TRUE,
             session |-> [session EXCEPT
                            !.users[i].preferences = Some(preferences)]]

\* bug variant: one user with preferences is enough
allUsersSubmitted_Any(session) ==
    /\ Len(session.users) >= 1
    /\ Len(session.users) <= 2
    /\ \E i \in DOMAIN session.users : session.users[i].preferences # None

allUsersSubmitted(session) ==
    /\ Len(session.users) >= 1
    /\ Len(session.users) <= 2
    /\ \A i \in DOMAIN session.users : session.users[i].preferences # None

isSoloSession(session) == Len(session.users) = 1

computeOverlappingRange(range1, range2) ==
    IF range1 = None /\ range2 = None THEN None
    ELSE IF range1 = None THEN range2
    ELSE IF range2 = None THEN range1
    ELSE LET min == Max(range1[1].min, range2[1].min)
             max == Min(range1[1].max, range2[1].max)
         IN IF min > max THEN None ELSE Some([min |-> min, max |-> max])

\* x || 0 for a nullable number
OrZero(x) == IF x = Null THEN 0 ELSE x
\* x || null for a number
OrNull(x) == IF x = 0 THEN Null ELSE x
\* the truth value of a nullable number used as a condition
Truthy(x) == x # Null /\ x # 0

\* calculateMatch: yearRange / runtimeRange (prefs2 is <<>> in solo mode)
MatchYearRange(prefs1, prefs2) ==
    IF prefs2 = None THEN prefs1.yearRange
    ELSE computeOverlappingRange(prefs1.yearRange, prefs2[1].yearRange)

MatchRuntimeRange(prefs1, prefs2) ==
    IF prefs2 = None THEN prefs1.runtimeRange
    ELSE computeOverlappingRange(prefs1.runtimeRange, prefs2[1].runtimeRange)

\* bug variant: watched movies are included as soon as one user accepts them
CombinedPrefs_WatchedOr(prefs1, prefs2) ==
    IF prefs2 = None
    THEN [prefs1 EXCEPT !.yearRange = MatchYearRange(prefs1, prefs2),
                        !.runtimeRange = MatchRuntimeRange(prefs1, prefs2)]
    ELSE [genres |-> prefs1.genres \cup prefs2[1].genres,
          yearRange |-> MatchYearRange(prefs1, prefs2),
          runtimeRange |-> MatchRuntimeRange(prefs1, prefs2),
          minImdbRating |->
              OrNull(Max(OrZero(prefs1.minImdbRating),
                         OrZero(prefs2[1].minImdbRating))),
          minRtCriticRating |->
              OrNull(Max(OrZero(prefs1.minRtCriticRating),
                         OrZero(prefs2[1].minRtCriticRating))),
          minRtAudienceRating |->
              OrNull(Max(OrZero(prefs1.minRtAudienceRating),
                         OrZero(prefs2[1].minRtAudienceRating))),
          includeWatched |-> prefs1.includeWatched \/ prefs2[1].includeWatched]

\* calculateMatch: combinedPrefs
CombinedPrefs(prefs1, prefs2) ==
    IF prefs2 = None
    THEN [prefs1 EXCEPT !.yearRange = MatchYearRange(prefs1, prefs2),
                        !.runtimeRange = MatchRuntimeRange(prefs1, prefs2)]
    ELSE [genres |-> prefs1.genres \cup prefs2[1].genres,
          yearRange |-> MatchYearRange(prefs1, prefs2),
          runtimeRange |-> MatchRuntimeRange(prefs1, prefs2),
          minImdbRating |->
              OrNull(Max(OrZero(prefs1.minImdbRating),
                         OrZero(prefs2[1].minImdbRating))),
          minRtCriticRating |->
              OrNull(Max(OrZero(prefs1.minRtCriticRating),
                         OrZero(prefs2[1].minRtCriticRating))),
          minRtAudienceRating |->
              OrNull(Max(OrZero(prefs1.minRtAudienceRating),
                         OrZero(prefs2[1].minRtAudienceRating))),
          includeWatched |-> prefs1.includeWatched /\ prefs2[1].includeWatched]

\* calculateMatch: the predicate of movies.filter
MatchesCriteria(m, prefs1, prefs2) ==
    LET combinedPrefs == CombinedPrefs(prefs1, prefs2)
        yearRange == MatchYearRange(prefs1, prefs2)
        runtimeRange == MatchRuntimeRange(prefs1, prefs2)
    IN /\ ~(~combinedPrefs.includeWatched /\ m.watched)
       /\ ~(prefs1.genres # {} /\ m.genres \cap prefs1.genres = {})
       /\ ~(prefs2 # None /\ prefs2[1].genres # {}
              /\ m.genres \cap prefs2[1].genres = {})
       /\ ~(yearRange # None
              /\ (m.year < yearRange[1].min \/ m.year > yearRange[1].max))
       /\ ~(runtimeRange # None
              /\ (m.runtime < runtimeRange[1].min
                    \/ m.runtime > runtimeRange[1].max))

\* bug variant: a movie whose rating is unknown fails a set threshold
PassesRatingFilters_NullFails(enrichedMovie, combinedPrefs) ==
    /\ ~(/\ Truthy(combinedPrefs.minImdbRating)
         /\ (enrichedMovie.imdbRating = Null
               \/ enrichedMovie.imdbRating < combinedPrefs.minImdbRating))
    /\ ~(/\ Truthy(combinedPrefs.minRtCriticRating)
         /\ (enrichedMovie.rtCriticRating = Null
               \/ enrichedMovie.rtCriticRating
                    < combinedPrefs.minRtCriticRating))

\* calculateMatch: the rating filters applied to an enriched movie
\* (TRUE: the movie is kept)
PassesRatingFilters(enrichedMovie, combinedPrefs) ==
    /\ ~(/\ Truthy(combinedPrefs.minImdbRating)
         /\ enrichedMovie.imdbRating # Null
         /\ enrichedMovie.imdbRating < combinedPrefs.minImdbRating)
    /\ ~(/\ Truthy(combinedPrefs.minRtCriticRating)
         /\ enrichedMovie.rtCriticRating # Null
         /\ enrichedMovie.rtCriticRating < combinedPrefs.minRtCriticRating)

\* calculateMatch: session.matchedCriteria
MatchedCriteria(prefs1, prefs2) ==
    LET solo == prefs2 = None
        combinedPrefs == CombinedPrefs(prefs1, prefs2)
        RatingUnset(p) == p.minImdbRating = Null \/ p.minImdbRating = 0
        commonGenres == IF solo THEN prefs1.genres
                        ELSE prefs1.genres \cap prefs2[1].genres
    IN [genres |-> IF commonGenres # {} THEN commonGenres
                   ELSE combinedPrefs.genres,
        genresSkipped |-> IF solo THEN prefs1.genres = {}
                          ELSE prefs1.genres = {} /\ prefs2[1].genres = {},
        yearRange |-> MatchYearRange(prefs1, prefs2),
        yearSkipped |-> IF solo THEN prefs1.yearRange = None
                        ELSE prefs1.yearRange = None
                               /\ prefs2[1].yearRange = None,
        runtimeRange |-> MatchRuntimeRange(prefs1, prefs2),
        runtimeSkipped |-> IF solo THEN prefs1.runtimeRange = None
                           ELSE prefs1.runtimeRange = None
                                  /\ prefs2[1].runtimeRange = None,
        minImdbRating |-> combinedPrefs.minImdbRating,
        ratingSkipped |-> IF solo THEN RatingUnset(prefs1)
                          ELSE RatingUnset(prefs1) /\ RatingUnset(prefs2[1])]

\* calculateMatch: the assignments that follow the final shuffle
StoreMatch(session, enriched, prefs1, prefs2) ==
    [session EXCEPT
       !.matchedMovies = enriched,
       !.matchedCriteria = Some(MatchedCriteria(prefs1, prefs2)),
       !.currentIndex = 0,
       !.result = IF Len(enriched) > 0 THEN Some(enriched[1]) ELSE @]

\* bug variant: the end of the list is clamped one past the last index
rerollMovie_OffByOne(session) ==
    LET next == session.currentIndex + 1
        n == Len(session.matchedMovies)
    IN IF next > n
       THEN [session |-> [session EXCEPT !.currentIndex = n],
             result |-> session.result, isLast |-> TRUE, isFirst |-> FALSE]
       ELSE [session |-> [session EXCEPT
                            !.currentIndex = next,
                            !.result = IF next < n
                                       THEN Some(session.matchedMovies[next + 1])
                                       ELSE None],
             result |-> IF next < n
                        THEN Some(session.matchedMovies[next + 1])
                        ELSE None,
             isLast |-> next >= n - 1,
             isFirst |-> next = 0]

\* rerollMovie on an existing session with a non-empty list
\* (currentIndex is 0-based, as in the code)
rerollMovie(session) ==
    LET next == session.currentIndex + 1
        n == Len(session.matchedMovies)
    IN IF next >= n
       THEN [session |-> [session EXCEPT !.currentIndex = n - 1],
             result |-> session.result, isLast |-> TRUE, isFirst |-> FALSE]
       ELSE [session |-> [session EXCEPT
                            !.currentIndex = next,
                            !.result = Some(session.matchedMovies[next + 1])],
             result |-> Some(session.matchedMovies[next + 1]),
             isLast |-> next >= n - 1,
             isFirst |-> next = 0]

\* bug variant: at the first movie the cursor wraps to the last one
previousMovie_Wrap(session) ==
    LET n == Len(session.matchedMovies)
        prev == IF session.currentIndex = 0 THEN n - 1
                ELSE session.currentIndex - 1
    IN [session |-> [session EXCEPT
                       !.currentIndex = prev,
                       !.result = Some(session.matchedMovies[prev + 1])],
        result |-> Some(session.matchedMovies[prev + 1]),
        isLast |-> prev >= n - 1,
        isFirst |-> prev = 0]

\* bug variant: the cursor moves back but the current movie stays
previousMovie_StaleResult(session) ==
    LET prev == session.currentIndex - 1
        n == Len(session.matchedMovies)
    IN IF prev < 0
       THEN [session |-> [session EXCEPT !.currentIndex = 0],
             result |-> session.result, isLast |-> FALSE, isFirst |-> TRUE]
       ELSE [session |-> [session EXCEPT !.currentIndex = prev],
             result |-> Some(session.matchedMovies[prev + 1]),
             isLast |-> prev >= n - 1,
             isFirst |-> prev = 0]

previousMovie(session) ==
    LET prev == session.currentIndex - 1
        n == Len(session.matchedMovies)
    IN IF prev < 0
       THEN [session |-> [session EXCEPT !.currentIndex = 0],
             result |-> session.result, isLast |-> FALSE, isFirst |-> TRUE]
       ELSE [session |-> [session EXCEPT
                            !.currentIndex = prev,
                            !.result = Some(session.matchedMovies[prev + 1])],
             result |-> Some(session.matchedMovies[prev + 1]),
             isLast |-> prev >= n - 1,
             isFirst |-> prev = 0]

\* votes[movieId] = vote on a vote map
SetVote(votes, movieId, vote) ==
    [k \in DOMAIN votes \cup {movieId} |->
        IF k = movieId THEN vote ELSE votes[k]]

\* bug variant: voting is complete only with more votes than movies
voteOnMovie_Strict(session, userId, movieId, vote) ==
    LET i == UserIndex(session.users, userId)
        votes == SetVote(session.users[i].votes, movieId, vote)
        totalMovies == Len(session.matchedMovies)
        userVotes == Cardinality(DOMAIN votes)
        votingComplete == userVotes > totalMovies
    IN [session |-> [session EXCEPT
                       !.users[i].votes = votes,
                       !.users[i].votingComplete =
                           IF votingComplete THEN TRUE ELSE @],
        votingComplete |-> votingComplete]

\* bug variant: the stored flag follows the comparison and can be cleared
voteOnMovie_Recompute(session, userId, movieId, vote) ==
    LET i == UserIndex(session.users, userId)
        votes == SetVote(session.users[i].votes, movieId, vote)
        totalMovies == Len(session.matchedMovies)
        userVotes == Cardinality(DOMAIN votes)
        votingComplete == userVotes >= totalMovies
    IN [session |-> [session EXCEPT
                       !.users[i].votes = votes,
                       !.users[i].votingComplete = votingComplete],
        votingComplete |-> votingComplete]


\* bug variant: the vote is recorded for every user of the session
voteOnMovie_AllUsers(session, userId, movieId, vote) ==
    LET totalMovies == Len(session.matchedMovies)
        votingComplete ==
            Cardinality(DOMAIN SetVote(
                session.users[UserIndex(session.users, userId)].votes,
                movieId, vote)) >= totalMovies
    IN [session |-> [session EXCEPT
                       !.users = [j \in DOMAIN @ |->
                                    [@[j] EXCEPT
                                       !.votes = SetVote(@, movieId, vote)]]],
        votingComplete |-> votingComplete]

\* voteOnMovie for a user of the session: [session, votingComplete]
voteOnMovie(session, userId, movieId, vote) ==
    LET i == UserIndex(session.users, userId)
        votes == SetVote(session.users[i].votes, movieId, vote)
        totalMovies == Len(session.matchedMovies)
        userVotes == Cardinality(DOMAIN votes)
        votingComplete == userVotes >= totalMovies
    IN [session |-> [session EXCEPT
                       !.users[i].votes = votes,
                       !.users[i].votingComplete =
                           IF votingComplete THEN TRUE ELSE @],
        votingComplete |-> votingComplete]

\* bug variant: every() alone, true of a session without users
allVotingComplete_Vacuous(session) ==
    \A i \in DOMAIN session.users : session.users[i].votingComplete

allVotingComplete(session) ==
    /\ Len(session.users) >= 1
    /\ \A i \in DOMAIN session.users : session.users[i].votingComplete

\* getVotingResults: votes[movie.id] === true for the k-th user of the
\* session, FALSE when there is no such user or no such vote
VotedYes(session, k, movieId) ==
    /\ k <= Len(session.users)
    /\ movieId \in DOMAIN session.users[k].votes
    /\ session.users[k].votes[movieId]

\* getVotingResults: user1Vote and user2Vote for one movie
User1Vote(session, movieId) == VotedYes(session, 1, movieId)

\* bug variant: in solo mode the absent second user counts as a no
User2Vote_SoloNo(session, movieId) == VotedYes(session, 2, movieId)

User2Vote(session, movieId) ==
    IF Len(session.users) >= 2 THEN VotedYes(session, 2, movieId) ELSE TRUE

\* bug variant: the last two branches are exchanged
Bucket_Swapped(user1Vote, user2Vote) ==
    IF user1Vote /\ user2Vote THEN "bothYes"
    ELSE IF ~user1Vote /\ ~user2Vote THEN "bothNo"
    ELSE IF ~user1Vote THEN "user2No"
    ELSE "user1No"

\* getVotingResults: the if / else-if chain that picks the bucket
Bucket(user1Vote, user2Vote) ==
    IF user1Vote /\ user2Vote THEN "bothYes"
    ELSE IF ~user1Vote /\ ~user2Vote THEN "bothNo"
    ELSE IF ~user1Vote THEN "user1No"
    ELSE "user2No"

\* getVotingResults: the loop over matchedMovies, from index j on
RECURSIVE TallyFrom(_, _, _)
TallyFrom(session, j, acc) ==
    IF j > Len(session.matchedMovies) THEN acc
    ELSE LET movie == session.matchedMovies[j]
             bucket == Bucket(User1Vote(session, movie.id),
                              User2Vote(session, movie.id))
         IN TallyFrom(session, j + 1, [acc EXCEPT ![bucket] = Append(@, movie)])

\* bug variant: a movie both users refused is pushed to no bucket
getVotingResults_DropBothNo(session) ==
    [TallyFrom(session, 1,
               [bothYes |-> <<>>, user1No |-> <<>>, user2No |-> <<>>,
                bothNo |-> <<>>])
       EXCEPT !.bothNo = <<>>]

getVotingResults(session) ==
    TallyFrom(session, 1,
              [bothYes |-> <<>>, user1No |-> <<>>, user2No |-> <<>>,
               bothNo |-> <<>>])

-----------------------------------------------------------------------------
(* plex.ts: the rating cache and enrichment *)

\* fetchOmdbRatings: cacheKey
CacheKey(title, year) == <<title, year>>

\* fetchOmdbRatings: which path a call takes, decided when it is made.
\*   "miss"     no entry: full lookup, then ratingsCache.set
\*   "backfill" entry without TMDB data: fetchTmdbMovieData first
\*   "retry"    entry with imdbRating and imdbId both null: OMDB again
\*   "clean"    entry returned as it is, without any network call
NeedsRetry(entry) == entry.imdbRating = Null /\ entry.imdbId = ""

\* a string field a legacy cache entry does not have (undefined)
NoField == "undefined"

\* bug variant: every complete entry is looked up again at OMDB
EnrichMode_RetryAlways(cache, key) ==
    IF key \notin DOMAIN cache THEN "miss"
    ELSE IF cache[key].tmdbRating = Absent \/ cache[key].backdrop = NoField
    THEN "backfill"
    ELSE "retry"

EnrichMode(cache, key) ==
    IF key \notin DOMAIN cache THEN "miss"
    ELSE IF cache[key].tmdbRating = Absent \/ cache[key].backdrop = NoField
    THEN "backfill"
    ELSE IF NeedsRetry(cache[key]) THEN "retry"
    ELSE "clean"

\* What the providers answer to one lookup: omdbOk is FALSE when the OMDB
\* request throws or answers Response "False"; a rating is Null when the
\* provider has none ("N/A", no Rotten Tomatoes entry, request failed).
\* fetchOmdbRatings, cache miss: the entry built from the answers
MissEntry(ans) ==
    [imdbRating |-> IF ans.omdbOk THEN ans.imdbRating ELSE Null,
     rtCriticRating |-> IF ans.omdbOk THEN ans.rtCriticRating ELSE Null,
     rtAudienceRating |-> ans.rtAudienceRating,
     tmdbRating |-> ans.tmdbRating,
     imdbId |-> IF ans.omdbOk THEN ans.imdbId ELSE "",
     backdrop |-> ans.backdrop]


\* bug variant: the merge keeps the entry untouched when TMDB has no rating
BackfillEntry_SkipsNull(cached, ans) ==
    IF ans.tmdbRating = Null THEN cached
    ELSE [cached EXCEPT !.tmdbRating = ans.tmdbRating,
                        !.backdrop = ans.backdrop]

\* fetchOmdbRatings, cache hit without TMDB data: the entry after the merge
BackfillEntry(cached, ans) ==
    [cached EXCEPT !.tmdbRating = ans.tmdbRating, !.backdrop = ans.backdrop]

\* fetchOmdbRatings, cache hit after a rate limit: the entry after the retry
RetryEntry(cached, ans) ==
    IF ~ans.omdbOk THEN cached
    ELSE [cached EXCEPT
            !.imdbRating = IF ans.imdbRating # Null THEN ans.imdbRating ELSE @,
            !.imdbId = IF ans.imdbId # "" THEN ans.imdbId ELSE @,
            !.rtCriticRating =
                IF ans.rtCriticRating # Null THEN ans.rtCriticRating ELSE @]

\* fetchOmdbRatings, cache miss: the file is written when the map reaches a
\* multiple of this size
FlushEvery == 10


\* bug variant: entries without an IMDb rating are left out of the file
saveRatingsCache_RatedOnly(cache) ==
    [key \in {k \in DOMAIN cache : cache[k].imdbRating # Null} |-> cache[key]]

\* saveRatingsCache: the content of the file after the write, one JSON object
\* per entry. JSON.stringify leaves out a field that is undefined and writes
\* null as null, so what loadRatingsCache would read back has the fields of
\* the entry in memory. The write is taken to succeed (a failed write is
\* caught and logged).
saveRatingsCache(cache) ==
    [key \in DOMAIN cache |->
        [field \in DOMAIN cache[key] |-> cache[key][field]]]

\* enrichMovieWithRatings: { ...movie, ...ratings }
enrichMovieWithRatings(movie, ratings) ==
    [movie EXCEPT !.imdbRating = ratings.imdbRating,
                  !.rtCriticRating = ratings.rtCriticRating,
                  !.rtAudienceRating = ratings.rtAudienceRating,
                  !.tmdbRating = ratings.tmdbRating,
                  !.imdbId = ratings.imdbId,
                  !.backdrop = ratings.backdrop]

-----------------------------------------------------------------------------
(* calculateMatch: the enrichment loop *)

\* bug variant: the budget is ignored, every filtered movie is enriched
MaxToEnrich_All(candidates, session) == Len(candidates)

\* maxToEnrich
MaxToEnrich(candidates, session) ==
    MathMin(Len(candidates), session.movieCount)

\* the body of the loop once candidate `movie` has its ratings
PushEnriched(enriched, movie, ratings, combinedPrefs) ==
    LET enrichedMovie == enrichMovieWithRatings(movie, ratings)
    IN IF PassesRatingFilters(enrichedMovie, combinedPrefs)
       THEN Append(enriched, enrichedMovie)
       ELSE enriched

\* Runs the loop from candidate i (0-based) for as long as the cache answers
\* without a network call; stops at the first candidate whose enrichment has
\* to wait for a provider (done = FALSE, with the path the call took), or at
\* maxToEnrich (done = TRUE).
RECURSIVE EnrichLoop(_, _, _, _, _, _)
EnrichLoop(cache, candidates, i, maxToEnrich, enriched, combinedPrefs) ==
    IF i >= maxToEnrich
    THEN [done |-> TRUE, i |-> i, enriched |-> enriched, mode |-> ""]
    ELSE LET movie == candidates[i + 1]
             key == CacheKey(movie.title, movie.year)
             mode == EnrichMode(cache, key)
         IN IF mode = "clean"
            THEN EnrichLoop(cache, candidates, i + 1, maxToEnrich,
                            PushEnriched(enriched, movie, cache[key],
                                         combinedPrefs),
                            combinedPrefs)
            ELSE [done |-> FALSE, i |-> i, enriched |-> enriched,
                  mode |-> mode]

-----------------------------------------------------------------------------
(* The session map and the heap of Session objects *)

\* String.prototype.toUpperCase on the codes the requests carry
toUpperCase(code) ==
    CASE code = "aaaaaa" -> "AAAAAA"
      [] code = "bbbbbb" -> "BBBBBB"
      [] OTHER -> code

\* getSession / sessions.get(code.toUpperCase())
HasSession(code) == toUpperCase(code) \in DOMAIN sessions
SessionRef(code) == sessions[toUpperCase(code)]
getSession(code) == heap[SessionRef(code)]

\* a reference no live object uses
FreshObj ==
    CHOOSE o \in ObjIds \ DOMAIN heap :
        \A p \in ObjIds \ DOMAIN heap : o <= p

\* objects reachable from the map or from a suspended request
Live(sess, rq) ==
    {sess[c] : c \in DOMAIN sess} \cup {rq[r].obj : r \in DOMAIN rq}

\* garbage collection: unreachable objects leave the heap
Collect(h, sess, rq) ==
    [o \in DOMAIN h \cap Live(sess, rq) |-> h[o]]

\* m with key k set to v / without key k
MapSet(m, k, v) == [x \in DOMAIN m \cup {k} |-> IF x = k THEN v ELSE m[x]]
MapDelete(m, ks) == [x \in DOMAIN m \ ks |-> m[x]]

-----------------------------------------------------------------------------
(* The environment: the Plex library and what the rating providers know *)

Alien    == Movie("m1", "Alien", 1979, {"Horror", "SciFi"}, 117, FALSE)
Airplane == Movie("m2", "Airplane", 1980, {"Comedy"}, 88, TRUE)
Up       == Movie("m3", "Up", 2009, {"Comedy", "Family"}, 96, FALSE)
Jaws     == Movie("m4", "Jaws", 1975, {"Horror", "Thriller"}, 124, FALSE)
Heat     == Movie("m5", "Heat", 1995, {"Crime"}, 170, FALSE)
Coco     == Movie("m6", "Coco", 2017, {"Family"}, 105, FALSE)

\* IMDb ratings are in tenths, Rotten Tomatoes scores in percent
ProviderData(title) ==
    CASE title = "Alien" ->
           [imdbRating |-> 85, rtCriticRating |-> 93, rtAudienceRating |-> 94,
            tmdbRating |-> 82]
      [] title = "Airplane" ->
           [imdbRating |-> 77, rtCriticRating |-> 97, rtAudienceRating |-> 89,
            tmdbRating |-> 73]
      [] OTHER ->
           [imdbRating |-> 83, rtCriticRating |-> 98, rtAudienceRating |-> 90,
            tmdbRating |-> 79]

\* every provider answers
FullAnswer(movie) ==
    LET d == ProviderData(movie.title)
    IN [omdbOk |-> TRUE, imdbRating |-> d.imdbRating,
        rtCriticRating |-> d.rtCriticRating,
        rtAudienceRating |-> d.rtAudienceRating,
        tmdbRating |-> d.tmdbRating, imdbId |-> "tt", backdrop |-> "img"]

\* every provider fails (rate limit, network error)
FailedAnswer ==
    [omdbOk |-> FALSE, imdbRating |-> Null, rtCriticRating |-> Null,
     rtAudienceRating |-> Null, tmdbRating |-> Null, imdbId |-> "",
     backdrop |-> ""]

Answers(movie) == {FullAnswer(movie), FailedAnswer}

-----------------------------------------------------------------------------
(* Responses *)

Response(op, status, code) == [op |-> op, status |-> status, code |-> code]

\* GET /api/session/:code/result, status 200
ResultBody(code, session) ==
    [op |-> "result", status |-> 200, code |-> code,
     result |-> session.result,
     totalMatches |-> Len(session.matchedMovies),
     currentIndex |-> session.currentIndex,
     isLast |-> session.currentIndex >= Len(session.matchedMovies) - 1,
     matchedCriteria |-> session.matchedCriteria,
     movies |-> session.matchedMovies]

-----------------------------------------------------------------------------
(* Actions: one per route handler, timer callback or resumption *)

\* POST /api/session -> createSession
CreateSession(code, movieCount) ==
    LET obj == FreshObj
        session == NewSession(code, movieCount, now)
        sessions1 == MapSet(sessions, code, obj)
    IN /\ sessions' = sessions1
       /\ heap' = Collect(MapSet(heap, obj, session), sessions1, reqs)
       \* res.json writes NaN as null
       /\ ret' = [op |-> "create", status |-> 200, code |-> code,
                  movieCount |-> IF session.movieCount = NaN THEN Null
                                 ELSE session.movieCount]
       /\ UNCHANGED <<ratingsCache, cacheFile, catalog, reqs, now>>

\* POST /api/session/:code/join -> joinSession
JoinSession(code, userId, name) ==
    /\ IF userId = "" \/ name = ""
       THEN /\ ret' = Response("join", 400, code)
            /\ UNCHANGED heap
       ELSE IF ~HasSession(code)
       THEN /\ ret' = Response("join", 404, code)
            /\ UNCHANGED heap
       ELSE LET r == joinSession(getSession(code), userId, name, now)
            IN /\ heap' = [heap EXCEPT ![SessionRef(code)] = r.session]
               /\ ret' = Response("join", IF r.ok THEN 200 ELSE 404, code)
    /\ UNCHANGED <<sessions, ratingsCache, cacheFile, catalog, reqs, now>>

\* POST /api/session/:code/preferences -> submitPreferences
SubmitPreferences(code, userId, preferences) ==
    /\ IF userId = ""
       THEN /\ ret' = Response("preferences", 400, code)
            /\ UNCHANGED heap
       ELSE IF ~HasSession(code)
       THEN /\ ret' = Response("preferences", 404, code)
            /\ UNCHANGED heap
       ELSE LET r == submitPreferences(getSession(code), userId, preferences)
            IN /\ heap' = [heap EXCEPT ![SessionRef(code)] = r.session]
               /\ ret' = IF r.ok
                         THEN [op |-> "preferences", status |-> 200,
                               code |-> code,
                               allSubmitted |-> allUsersSubmitted(r.session)]
                         ELSE Response("preferences", 404, code)
    /\ UNCHANGED <<sessions, ratingsCache, cacheFile, catalog, reqs, now>>

\* the slot a new GET /result request takes
FreeReq == CHOOSE r \in ReqIds \ DOMAIN reqs :
               \A q \in ReqIds \ DOMAIN reqs : r <= q

\* GET /api/session/:code/result up to its first await: answers at once, or
\* enters calculateMatch and is suspended at getAllMovies
GetResult(code) ==
    /\ IF ~HasSession(code)
       THEN /\ ret' = Response("result", 404, code)
            /\ UNCHANGED reqs
       ELSE LET session == getSession(code)
            IN IF ~allUsersSubmitted(session)
               THEN /\ ret' = Response("result", 400, code)
                    /\ UNCHANGED reqs
               ELSE IF session.result = None /\ Len(session.matchedMovies) = 0
               THEN /\ ReqIds \ DOMAIN reqs # {}
                    /\ reqs' = MapSet(reqs, FreeReq,
                         [pc |-> "catalog", code |-> code,
                          obj |-> SessionRef(code),
                          prefs1 |-> session.users[1].preferences[1],
                          prefs2 |-> IF Len(session.users) > 1
                                     THEN session.users[2].preferences
                                     ELSE None,
                          candidates |-> <<>>, i |-> 0, enriched |-> <<>>,
                          mode |-> "", needsSave |-> FALSE])
                    /\ ret' = Response("pending", 0, code)
               ELSE /\ ret' = ResultBody(code, session)
                    /\ UNCHANGED reqs
    /\ UNCHANGED <<sessions, heap, ratingsCache, cacheFile, catalog, now>>

\* calculateMatch from the final shuffle to its return, and the rest of the
\* GET /result handler: request r stores `final` and answers
FinishMatch(r, final) ==
    LET rq == reqs[r]
        session == StoreMatch(heap[rq.obj], final, rq.prefs1, rq.prefs2)
        reqs1 == MapDelete(reqs, {r})
    IN /\ heap' = Collect([heap EXCEPT ![rq.obj] = session], sessions, reqs1)
       /\ reqs' = reqs1
       /\ ret' = ResultBody(rq.code, session)

\* calculateMatch from enrichment of candidate i on, with the cache as it
\* will be left: either request r waits for a provider again or it finishes
ContinueMatch(r, cache, candidates, i, enriched) ==
    LET rq == reqs[r]
        combinedPrefs == CombinedPrefs(rq.prefs1, rq.prefs2)
        loop == EnrichLoop(cache, candidates, i, Len(candidates), enriched,
                           combinedPrefs)
    IN IF loop.done
       THEN \E final \in Shuffles(loop.enriched) : FinishMatch(r, final)
       ELSE /\ reqs' = [reqs EXCEPT ![r] =
                          [@ EXCEPT !.pc = "enrich",
                                    !.candidates = candidates,
                                    !.i = loop.i,
                                    !.enriched = loop.enriched,
                                    !.mode = loop.mode,
                                    !.needsSave = FALSE]]
            /\ ret' = Response("pending", 0, rq.code)
            /\ UNCHANGED heap

\* getAllMovies resolves: filter, first shuffle, start of the enrichment loop.
\* Only the first maxToEnrich shuffled candidates are ever read again, so
\* only they are kept.
CatalogReturns(r) ==
    /\ r \in DOMAIN reqs
    /\ reqs[r].pc = "catalog"
    /\ LET rq == reqs[r]
           movies == catalog
           matching == {movies[k] : k \in
                          {k \in DOMAIN movies :
                             MatchesCriteria(movies[k], rq.prefs1, rq.prefs2)}}
           candidates == FilterSeq(movies, matching)
           maxToEnrich == MaxToEnrich(candidates, heap[rq.obj])
       IN \E shuffled \in Shuffles(candidates) :
            \* i < NaN is false: with maxToEnrich NaN no candidate is read
            ContinueMatch(r, ratingsCache,
                          SubSeq(shuffled, 1,
                                 IF maxToEnrich = NaN THEN 0 ELSE maxToEnrich),
                          0, <<>>)
    /\ UNCHANGED <<sessions, ratingsCache, cacheFile, catalog, now>>

\* the server process is alive
Running == ret.op # "exit"

\* getAllMovies rejects (plexRequest throws: Plex unreachable or an error
\* status): calculateMatch rejects, and so does the async handler of
\* GET /result, which has no try/catch. Express 4 (the build registers
\* app.get("*")) does not handle a rejected handler and Node 16+ ends the
\* process on an unhandled rejection: the memory of the process is gone and
\* no request is answered.
CatalogFails(r) ==
    /\ r \in DOMAIN reqs
    /\ reqs[r].pc = "catalog"
    /\ sessions' = <<>>
    /\ heap' = <<>>
    /\ reqs' = <<>>
    /\ ratingsCache' = <<>>
    /\ ret' = Response("exit", 0, reqs[r].code)
    /\ UNCHANGED <<cacheFile, catalog, now>>

\* the provider call made for candidate i resolves with answer ans
EnrichReturns(r, ans) ==
    /\ r \in DOMAIN reqs
    /\ reqs[r].pc = "enrich"
    /\ LET rq == reqs[r]
           movie == rq.candidates[rq.i + 1]
           key == CacheKey(movie.title, movie.year)
           combinedPrefs == CombinedPrefs(rq.prefs1, rq.prefs2)
           entry == CASE rq.mode = "miss" -> MissEntry(ans)
                      [] rq.mode = "backfill" ->
                           BackfillEntry(ratingsCache[key], ans)
                      [] OTHER -> RetryEntry(ratingsCache[key], ans)
           cache == MapSet(ratingsCache, key, entry)
           needsSave ==
               CASE rq.mode = "miss" ->
                      Cardinality(DOMAIN cache) % FlushEvery = 0
                 [] rq.mode = "backfill" -> TRUE
                 [] OTHER -> rq.needsSave \/ ans.omdbOk
       IN /\ ans \in Answers(movie)
          /\ ratingsCache' = cache
          /\ IF rq.mode = "backfill" /\ NeedsRetry(entry)
             THEN /\ reqs' = [reqs EXCEPT ![r].mode = "retry",
                                          ![r].needsSave = TRUE]
                  /\ ret' = Response("pending", 0, rq.code)
                  /\ UNCHANGED <<heap, cacheFile>>
             ELSE /\ cacheFile' = IF needsSave THEN saveRatingsCache(cache)
                                  ELSE cacheFile
                  /\ ContinueMatch(r, cache, rq.candidates, rq.i + 1,
                                   PushEnriched(rq.enriched, movie, entry,
                                                combinedPrefs))
    /\ UNCHANGED <<sessions, catalog, now>>

\* POST /api/session/:code/reroll -> rerollMovie
Reroll(code) ==
    /\ IF ~HasSession(code) \/ Len(getSession(code).matchedMovies) = 0
       THEN /\ ret' = Response("reroll", 404, code)
            /\ UNCHANGED heap
       ELSE LET r == rerollMovie(getSession(code))
            IN /\ heap' = [heap EXCEPT ![SessionRef(code)] = r.session]
               /\ ret' = [op |-> "reroll", status |-> 200, code |-> code,
                          result |-> r.result, isLast |-> r.isLast,
                          isFirst |-> r.isFirst]
    /\ UNCHANGED <<sessions, ratingsCache, cacheFile, catalog, reqs, now>>

\* POST /api/session/:code/previous -> previousMovie
Previous(code) ==
    /\ IF ~HasSession(code) \/ Len(getSession(code).matchedMovies) = 0
       THEN /\ ret' = Response("previous", 404, code)
            /\ UNCHANGED heap
       ELSE LET r == previousMovie(getSession(code))
            IN /\ heap' = [heap EXCEPT ![SessionRef(code)] = r.session]
               /\ ret' = [op |-> "previous", status |-> 200, code |-> code,
                          result |-> r.result, isLast |-> r.isLast,
                          isFirst |-> r.isFirst]
    /\ UNCHANGED <<sessions, ratingsCache, cacheFile, catalog, reqs, now>>

\* POST /api/session/:code/vote -> voteOnMovie
Vote(code, userId, movieId, vote) ==
    /\ IF userId = "" \/ movieId = ""
       THEN /\ ret' = Response("vote", 400, code)
            /\ UNCHANGED heap
       ELSE IF ~HasSession(code) \/ ~HasUser(getSession(code).users, userId)
       THEN /\ ret' = Response("vote", 404, code)
            /\ UNCHANGED heap
       ELSE LET r == voteOnMovie(getSession(code), userId, movieId, vote)
            IN /\ heap' = [heap EXCEPT ![SessionRef(code)] = r.session]
               /\ ret' = [op |-> "vote", status |-> 200, code |-> code,
                          success |-> TRUE,
                          votingComplete |-> r.votingComplete]
    /\ UNCHANGED <<sessions, ratingsCache, cacheFile, catalog, reqs, now>>

\* GET /api/session/:code/voting-results
GetVotingResults(code) ==
    /\ ret' = IF ~HasSession(code)
              THEN Response("votingResults", 404, code)
              ELSE IF ~allVotingComplete(getSession(code))
              THEN Response("votingResults", 400, code)
              ELSE LET results == getVotingResults(getSession(code))
                       users == getSession(code).users
                   IN [op |-> "votingResults", status |-> 200, code |-> code,
                       bothYes |-> results.bothYes,
                       user1No |-> results.user1No,
                       user2No |-> results.user2No,
                       bothNo |-> results.bothNo,
                       users |-> [k \in DOMAIN users |->
                                    [id |-> users[k].id,
                                     name |-> users[k].name]]]
    /\ UNCHANGED <<sessions, heap, ratingsCache, cacheFile, catalog, reqs, now>>

\* bug variant: the age of a session is counted from its last join
CleanupSessions_SinceLastJoin ==
    LET lastActive(session) ==
            IF session.users = <<>> THEN session.createdAt
            ELSE session.users[Len(session.users)].joinedAt
        expired == {c \in DOMAIN sessions :
                      now - lastActive(heap[sessions[c]]) > MaxAge}
        sessions1 == MapDelete(sessions, expired)
    IN /\ sessions' = sessions1
       /\ heap' = Collect(heap, sessions1, reqs)
       /\ ret' = Response("cleanup", 0, "")
       /\ UNCHANGED <<ratingsCache, cacheFile, catalog, reqs, now>>

\* the hourly timer -> cleanupSessions
CleanupSessions ==
    LET expired == {c \in DOMAIN sessions :
                      now - heap[sessions[c]].createdAt > MaxAge}
        sessions1 == MapDelete(sessions, expired)
    IN /\ sessions' = sessions1
       /\ heap' = Collect(heap, sessions1, reqs)
       /\ ret' = Response("cleanup", 0, "")
       /\ UNCHANGED <<ratingsCache, cacheFile, catalog, reqs, now>>

\* time passes
Tick ==
    /\ now < MaxTime
    /\ now' = now + 1
    /\ ret' = Response("tick", 0, "")
    /\ UNCHANGED <<sessions, heap, ratingsCache, cacheFile, catalog, reqs>>

-----------------------------------------------------------------------------
(* Inputs *)

NoRange == None
Between(lo, hi) == Some([min |-> lo, max |-> hi])

Prefs(genres, runtimeRange, minImdb, includeWatched) ==
    [genres |-> genres, minImdbRating |-> minImdb, minRtCriticRating |-> Null,
     minRtAudienceRating |-> Null, runtimeRange |-> runtimeRange,
     yearRange |-> NoRange, includeWatched |-> includeWatched]

AnyMovie   == Prefs({}, NoRange, Null, TRUE)
GoodComedy == Prefs({"Comedy"}, NoRange, 80, TRUE)
Western    == Prefs({"Western"}, NoRange, Null, TRUE)
ShortFilm  == Prefs({}, Between(60, 90), Null, TRUE)
LongFilm   == Prefs({}, Between(120, 150), Null, TRUE)
MidFilm    == Prefs({}, Between(80, 130), Null, TRUE)

Unwatched    == Prefs({}, NoRange, Null, FALSE)
WantsComedy  == Prefs({"Comedy"}, NoRange, Null, TRUE)
WantsHorror  == Prefs({"Horror"}, NoRange, Null, TRUE)
WantsFamilyOrHorror == Prefs({"Family", "Horror"}, NoRange, Null, TRUE)

\* a threshold on one rating source each (IMDb in tenths, the others in %)
ImdbFan     == [AnyMovie EXCEPT !.minImdbRating = 80]
CriticFan   == [AnyMovie EXCEPT !.minRtCriticRating = 95]
AudienceFan == [AnyMovie EXCEPT !.minRtAudienceRating = 92]

\* generateCode: the draws that do not hit the code of a live session
\* (customAlphabet draws one of 32^6 codes at random)
NewCodes(codes) == codes \ DOMAIN sessions

\* loadRatingsCache: the cache file an earlier run left after it looked up
\* `movies` with every provider answering
CacheFile(movies) ==
    [key \in {CacheKey(m.title, m.year) : m \in Range(movies)} |->
        LET m == CHOOSE m \in Range(movies) : CacheKey(m.title, m.year) = key
        IN MissEntry(FullAnswer(m))]

\* loadRatingsCache: the entries a cache file written by earlier versions of
\* the server can hold for `movie`: without any TMDB field, with tmdbRating
\* but without backdrop, written while OMDB was rate limited, or both
LegacyEntries(movie) ==
    LET full == MissEntry(FullAnswer(movie))
        limited == [full EXCEPT !.imdbRating = Null, !.imdbId = "",
                                !.rtCriticRating = Null]
    IN {[full EXCEPT !.tmdbRating = Absent, !.backdrop = NoField],
        [full EXCEPT !.backdrop = NoField],
        limited,
        [limited EXCEPT !.tmdbRating = Absent, !.backdrop = NoField]}

\* the state of a freshly started server: no session, the cache as loaded
StartWith(movies, cache) ==
    /\ sessions = <<>>
    /\ heap = <<>>
    /\ ratingsCache = cache
    /\ cacheFile = cache
    /\ catalog = movies
    /\ reqs = <<>>
    /\ now = 0
    /\ ret = Response("start", 0, "")

\* ... with no cache file
Start(movies) == StartWith(movies, <<>>)

-----------------------------------------------------------------------------
(* Spec: one participant, concurrent GET /result requests, navigation *)

Init == Start(<<Airplane, Up>>)

Next ==
    \/ \E code \in NewCodes({"AAAAAA"}), movieCount \in {None} :
         CreateSession(code, movieCount)
    \/ JoinSession("AAAAAA", "u1", "Ann")
    \/ \E p \in {AnyMovie, GoodComedy, Western} :
         SubmitPreferences("AAAAAA", "u1", p)
    \/ GetResult("AAAAAA")
    \/ \E r \in ReqIds : CatalogReturns(r)
    \/ \E r \in ReqIds, ans \in {FullAnswer(Airplane), FullAnswer(Up),
                                 FailedAnswer} :
         EnrichReturns(r, ans)
    \/ Reroll("AAAAAA")
    \/ Previous("AAAAAA")

Spec == Init /\ [][Next]_vars

-----------------------------------------------------------------------------
(* SpecJoin: membership, with a third user, renaming, expiry and the clock *)

\* the code as created under one name, its lower-case spelling under another
JoinInputs == {[code |-> "AAAAAA", name |-> "Ann"],
               [code |-> "aaaaaa", name |-> "Bob"]}

InitJoin == Start(<<Up>>)

NextJoin ==
    \/ \E code \in NewCodes({"AAAAAA"}), movieCount \in {None} :
         CreateSession(code, movieCount)
    \/ \E userId \in UserIds, how \in JoinInputs :
         JoinSession(how.code, userId, how.name)
    \/ \E userId \in UserIds : SubmitPreferences("AAAAAA", userId, AnyMovie)
    \/ \E userId \in UserIds : Vote("AAAAAA", userId, "m3", TRUE)
    \/ CleanupSessions
    \/ Tick

SpecJoin == InitJoin /\ [][NextJoin]_vars

-----------------------------------------------------------------------------
(* SpecTally: two participants vote on the matched list and ask for the tally *)

InitTally == StartWith(<<Airplane, Up>>, CacheFile(<<Airplane, Up>>))

NextTally ==
    \/ \E code \in NewCodes({"AAAAAA"}), movieCount \in {None} :
         CreateSession(code, movieCount)
    \/ \E userId \in {"u1", "u2"} : JoinSession("AAAAAA", userId, "Ann")
    \/ \E userId \in {"u1", "u2"} :
         SubmitPreferences("AAAAAA", userId, AnyMovie)
    \/ GetResult("AAAAAA")
    \/ \E r \in ReqIds : CatalogReturns(r)
    \/ \E userId \in {"u1", "u2"}, movieId \in {"m2", "m3"}, vote \in BOOLEAN :
         Vote("AAAAAA", userId, movieId, vote)
    \/ GetVotingResults("AAAAAA")

SpecTally == InitTally /\ [][NextTally]_vars

-----------------------------------------------------------------------------
(* SpecDuo: two participants with runtime ranges, over several libraries *)

Libraries == {<<Alien>>, <<Airplane, Up>>}

InitDuo == \E movies \in Libraries : StartWith(movies, CacheFile(movies))

NextDuo ==
    \/ \E code \in NewCodes({"AAAAAA"}), movieCount \in {None} :
         CreateSession(code, movieCount)
    \/ \E userId \in {"u1", "u2"} : JoinSession("AAAAAA", userId, "Ann")
    \/ \E userId \in {"u1", "u2"}, p \in {ShortFilm, MidFilm, LongFilm} :
         SubmitPreferences("AAAAAA", userId, p)
    \/ GetResult("AAAAAA")
    \/ \E r \in ReqIds : CatalogReturns(r)

SpecDuo == InitDuo /\ [][NextDuo]_vars

-----------------------------------------------------------------------------
(* SpecNav: one participant, a warm cache, overlapping computations that may
   store lists of different lengths (3, 1 or 0 movies), the cursor moved
   both ways *)

InitNav == StartWith(<<Alien, Airplane, Up>>,
                     CacheFile(<<Alien, Airplane, Up>>))

NextNav ==
    \/ \E code \in NewCodes({"AAAAAA"}), movieCount \in {None} :
         CreateSession(code, movieCount)
    \/ JoinSession("AAAAAA", "u1", "Ann")
    \/ \E p \in {AnyMovie, GoodComedy, Western} :
         SubmitPreferences("AAAAAA", "u1", p)
    \/ GetResult("AAAAAA")
    \/ \E r \in ReqIds : CatalogReturns(r)
    \/ Reroll("AAAAAA")
    \/ Previous("AAAAAA")

SpecNav == InitNav /\ [][NextNav]_vars

-----------------------------------------------------------------------------
(* SpecFilter: one or two participants with genre sets and include-watched
   flags, each GET /result sent once the previous one has been answered *)

InitFilter == StartWith(<<Alien, Airplane, Up>>,
                        CacheFile(<<Alien, Airplane, Up>>))

NextFilter ==
    \/ \E code \in NewCodes({"AAAAAA"}), movieCount \in {None} :
         CreateSession(code, movieCount)
    \/ \E userId \in {"u1", "u2"} : JoinSession("AAAAAA", userId, "Ann")
    \/ \E userId \in {"u1", "u2"},
          p \in {Unwatched, WantsComedy, WantsHorror, WantsFamilyOrHorror} :
         SubmitPreferences("AAAAAA", userId, p)
    \/ reqs = <<>> /\ GetResult("AAAAAA")
    \/ \E r \in ReqIds : CatalogReturns(r)

SpecFilter == InitFilter /\ [][NextFilter]_vars

-----------------------------------------------------------------------------
(* SpecGenres: two participants who change their genre sets while GET /result
   requests are in flight *)

InitGenres == StartWith(<<Alien, Airplane, Up>>,
                        CacheFile(<<Alien, Airplane, Up>>))

NextGenres ==
    \/ \E code \in NewCodes({"AAAAAA"}), movieCount \in {None} :
         CreateSession(code, movieCount)
    \/ \E userId \in {"u1", "u2"} : JoinSession("AAAAAA", userId, "Ann")
    \/ \E userId \in {"u1", "u2"}, p \in {WantsComedy, WantsHorror} :
         SubmitPreferences("AAAAAA", userId, p)
    \/ GetResult("AAAAAA")
    \/ \E r \in ReqIds : CatalogReturns(r)

SpecGenres == InitGenres /\ [][NextGenres]_vars

-----------------------------------------------------------------------------
(* SpecBudget: one participant, a library larger than the smallest budget, no
   cache file, providers that answer; preferences and GET /result are sent
   while no GET /result is waiting for its answer *)

BigLibrary == <<Alien, Airplane, Up, Jaws, Heat, Coco>>

InitBudget == Start(BigLibrary)

NextBudget ==
    \/ \E code \in NewCodes({"AAAAAA"}), movieCount \in {Some(3)} :
         CreateSession(code, movieCount)
    \/ JoinSession("AAAAAA", "u1", "Ann")
    \/ \E p \in {AnyMovie, Unwatched, WantsComedy} :
         reqs = <<>> /\ SubmitPreferences("AAAAAA", "u1", p)
    \/ reqs = <<>> /\ GetResult("AAAAAA")
    \/ \E r \in ReqIds : CatalogReturns(r)
    \/ \E r \in ReqIds, movie \in Range(BigLibrary) :
         EnrichReturns(r, FullAnswer(movie))

SpecBudget == InitBudget /\ [][NextBudget]_vars

-----------------------------------------------------------------------------
(* SpecRatings: one or two participants with rating thresholds, a warm cache;
   each GET /result sent once the previous one has been answered *)

InitRatings == StartWith(<<Alien, Airplane, Up>>,
                         CacheFile(<<Alien, Airplane, Up>>))

NextRatings ==
    \/ \E code \in NewCodes({"AAAAAA"}), movieCount \in {None} :
         CreateSession(code, movieCount)
    \/ \E userId \in {"u1", "u2"} : JoinSession("AAAAAA", userId, "Ann")
    \/ \E userId \in {"u1", "u2"}, p \in {ImdbFan, CriticFan, AudienceFan} :
         SubmitPreferences("AAAAAA", userId, p)
    \/ reqs = <<>> /\ GetResult("AAAAAA")
    \/ \E r \in ReqIds : CatalogReturns(r)

SpecRatings == InitRatings /\ [][NextRatings]_vars

-----------------------------------------------------------------------------
(* SpecSweep: two sessions of different ages, activity on them, the clock and
   the expiry sweep, with one GET /result at a time in flight *)

InitSweep == StartWith(<<Airplane, Up>>, CacheFile(<<Airplane, Up>>))

NextSweep ==
    \/ \E code \in NewCodes({"AAAAAA", "BBBBBB"}), movieCount \in {None} :
         CreateSession(code, movieCount)
    \/ \E code \in {"AAAAAA", "BBBBBB"} : JoinSession(code, "u1", "Ann")
    \/ \E code \in {"AAAAAA", "BBBBBB"} :
         SubmitPreferences(code, "u1", AnyMovie)
    \/ reqs = <<>> /\ GetResult("AAAAAA")
    \/ \E r \in ReqIds : CatalogReturns(r)
    \/ Reroll("AAAAAA")
    \/ CleanupSessions
    \/ Tick

SpecSweep == InitSweep /\ [][NextSweep]_vars

-----------------------------------------------------------------------------
(* SpecCreate: sessions created under any code generateCode can draw *)

InitCreate == Start(<<Up>>)

NextCreate ==
    \/ \E code \in Codes, movieCount \in {None} :
         CreateSession(code, movieCount)
    \/ \E code \in Codes : JoinSession(code, "u1", "Ann")
    \/ \E code \in Codes : SubmitPreferences(code, "u1", AnyMovie)
    \/ \E code \in Codes, vote \in BOOLEAN : Vote(code, "u1", "m3", vote)

SpecCreate == InitCreate /\ [][NextCreate]_vars

-----------------------------------------------------------------------------
(* SpecSize: sessions created with the sizes a request body can carry: none,
   numbers below, inside and above the limits, and strings; the list is
   computed from a warm cache *)

InitSize == StartWith(<<Alien, Up>>, CacheFile(<<Alien, Up>>))

NextSize ==
    \/ \E code \in NewCodes(Codes),
          movieCount \in {None} \cup {Some(n) : n \in {0, 4, 5, 50, 100, 101}} :
         CreateSession(code, movieCount)
    \/ \E code \in NewCodes(Codes), text \in {"", "50", "500", "abc"} :
         CreateSession(code, Some(StringToNumber(text)))
    \/ \E code \in Codes : JoinSession(code, "u1", "Ann")
    \/ \E code \in Codes : SubmitPreferences(code, "u1", AnyMovie)
    \/ \E code \in Codes : reqs = <<>> /\ GetResult(code)
    \/ \E r \in ReqIds : CatalogReturns(r)

SpecSize == InitSize /\ [][NextSize]_vars

-----------------------------------------------------------------------------
(* SpecFrame: two sessions side by side, each with its users, its list from
   a warm cache, its cursor and its votes *)

InitFrame == StartWith(<<Alien, Up>>, CacheFile(<<Alien, Up>>))

NextFrame ==
    \/ \E code \in NewCodes(Codes), movieCount \in {None} :
         CreateSession(code, movieCount)
    \/ \E code \in Codes : JoinSession(code, "u1", "Ann")
    \/ JoinSession("AAAAAA", "u2", "Bob")
    \/ \E code \in Codes : SubmitPreferences(code, "u1", AnyMovie)
    \/ \E code \in Codes : reqs = <<>> /\ GetResult(code)
    \/ \E r \in ReqIds : CatalogReturns(r)
    \/ \E code \in Codes : Reroll(code)
    \/ \E code \in Codes : Previous(code)
    \/ \E userId \in {"u1", "u2"} : Vote("AAAAAA", userId, "m1", TRUE)
    \/ Vote("BBBBBB", "u1", "m1", TRUE)

SpecFrame == InitFrame /\ [][NextFrame]_vars

-----------------------------------------------------------------------------
(* SpecVoting: the voting flow with its scheduling. One or two participants,
   preferences that give a list of two movies or an empty list, no sweep.
   Every user of the session keeps voting until they have voted on each
   movie of the list (weak fairness on these votes); a computation that has
   started finishes, and the tally is asked for again and again. *)

InitVoting == StartWith(<<Airplane, Up>>, CacheFile(<<Airplane, Up>>))

\* a user of the session votes on a movie of its list
VoteOnList(code, userId, movieId) ==
    /\ HasSession(code)
    /\ HasUser(getSession(code).users, userId)
    /\ movieId \in {m.id : m \in Range(getSession(code).matchedMovies)}
    /\ Vote(code, userId, movieId, TRUE)

NextVoting ==
    \/ \E code \in NewCodes({"AAAAAA"}), movieCount \in {None} :
         CreateSession(code, movieCount)
    \/ \E userId \in {"u1", "u2"} : JoinSession("AAAAAA", userId, "Ann")
    \/ \E p \in {AnyMovie, Western} : SubmitPreferences("AAAAAA", "u1", p)
    \/ SubmitPreferences("AAAAAA", "u2", AnyMovie)
    \/ reqs = <<>> /\ GetResult("AAAAAA")
    \/ \E r \in ReqIds : CatalogReturns(r)
    \/ \E userId \in {"u1", "u2"}, movieId \in {"m2", "m3"} :
         VoteOnList("AAAAAA", userId, movieId)
    \/ GetVotingResults("AAAAAA")

FairVoting ==
    /\ \A userId \in {"u1", "u2"}, movieId \in {"m2", "m3"} :
          WF_vars(VoteOnList("AAAAAA", userId, movieId))
    /\ WF_vars(\E r \in ReqIds : CatalogReturns(r))
    /\ WF_vars(GetVotingResults("AAAAAA"))

SpecVoting == InitVoting /\ [][NextVoting]_vars /\ FairVoting

-----------------------------------------------------------------------------
(* SpecCache: a cache file left by an earlier version, read by the
   computations of two sessions, with providers that answer or fail *)

InitCache ==
    \E entry \in LegacyEntries(Up) :
       StartWith(<<Up>>, [key \in {CacheKey(Up.title, Up.year)} |-> entry])

NextCache ==
    \/ \E code \in NewCodes({"AAAAAA", "BBBBBB"}), movieCount \in {None} :
         CreateSession(code, movieCount)
    \/ \E code \in {"AAAAAA", "BBBBBB"} : JoinSession(code, "u1", "Ann")
    \/ \E code \in {"AAAAAA", "BBBBBB"} :
         SubmitPreferences(code, "u1", AnyMovie)
    \/ \E code \in {"AAAAAA", "BBBBBB"} : reqs = <<>> /\ GetResult(code)
    \/ \E r \in ReqIds : CatalogReturns(r)
    \/ \E r \in ReqIds, ans \in Answers(Up) : EnrichReturns(r, ans)

SpecCache == InitCache /\ [][NextCache]_vars

-----------------------------------------------------------------------------
(* SpecFlush: a cache file of eight or nine entries left by an earlier
   library, and a library of two movies the cache does not know, so that
   the lookups of two requests, which may overlap, take the cache through a
   multiple of FlushEvery *)

\* movies of an earlier library, looked up before the file was last written
Earlier(n) ==
    [k \in 1 .. n |-> Movie("m0", "Rocky", 1975 + k, {"Drama"}, 120, FALSE)]

InitFlush ==
    \E n \in {8, 9} :
       StartWith(<<Alien, Up>>, CacheFile(Earlier(n)))

NextFlush ==
    \/ \E code \in NewCodes({"AAAAAA"}), movieCount \in {None} :
         CreateSession(code, movieCount)
    \/ JoinSession("AAAAAA", "u1", "Ann")
    \/ SubmitPreferences("AAAAAA", "u1", AnyMovie)
    \/ GetResult("AAAAAA")
    \/ \E r \in ReqIds : CatalogReturns(r)
    \/ \E r \in ReqIds, movie \in {Alien, Up} :
         \E ans \in Answers(movie) : EnrichReturns(r, ans)

SpecFlush == InitFlush /\ [][NextFlush]_vars

-----------------------------------------------------------------------------
(* SpecPrefs: preferences submitted and replaced by members and by a
   stranger, before and after the list and the votes exist *)

InitPrefs == StartWith(<<Airplane, Up>>, CacheFile(<<Airplane, Up>>))

NextPrefs ==
    \/ \E code \in NewCodes({"AAAAAA"}), movieCount \in {None} :
         CreateSession(code, movieCount)
    \/ \E userId \in {"u1", "u2"} : JoinSession("AAAAAA", userId, "Ann")
    \/ \E userId \in UserIds, p \in {AnyMovie, WantsComedy} :
         SubmitPreferences("AAAAAA", userId, p)
    \/ reqs = <<>> /\ GetResult("AAAAAA")
    \/ \E r \in ReqIds : CatalogReturns(r)
    \/ \E userId \in {"u1", "u2"} : Vote("AAAAAA", userId, "m3", TRUE)
    \/ Reroll("AAAAAA")

SpecPrefs == InitPrefs /\ [][NextPrefs]_vars

-----------------------------------------------------------------------------
(* SpecEnrich: no cache file, providers that answer or fail for each
   candidate, two sessions whose computations run one after the other, so
   that the second finds the entries the first left *)

InitEnrich == Start(<<Alien, Airplane, Up>>)

NextEnrich ==
    \/ \E code \in NewCodes({"AAAAAA", "BBBBBB"}), movieCount \in {None} :
         CreateSession(code, movieCount)
    \/ \E code \in {"AAAAAA", "BBBBBB"} : JoinSession(code, "u1", "Ann")
    \/ SubmitPreferences("AAAAAA", "u1", GoodComedy)
    \/ SubmitPreferences("BBBBBB", "u1", ImdbFan)
    \/ \E code \in {"AAAAAA", "BBBBBB"} : reqs = <<>> /\ GetResult(code)
    \/ \E r \in ReqIds : CatalogReturns(r)
    \/ \E r \in ReqIds, movie \in {Alien, Airplane, Up} :
         \E ans \in Answers(movie) : EnrichReturns(r, ans)

SpecEnrich == InitEnrich /\ [][NextEnrich]_vars

-----------------------------------------------------------------------------
(* SpecOutage: the Plex server answers or fails when GET /result asks for the
   library; nothing happens once the process has ended *)

InitOutage == StartWith(<<Airplane, Up>>, CacheFile(<<Airplane, Up>>))

NextOutage ==
    \/ \E code \in NewCodes({"AAAAAA"}), movieCount \in {None} :
         Running /\ CreateSession(code, movieCount)
    \/ \E userId \in {"u1", "u2"} :
         Running /\ JoinSession("AAAAAA", userId, "Ann")
    \/ \E userId \in {"u1", "u2"} :
         Running /\ SubmitPreferences("AAAAAA", userId, AnyMovie)
    \/ Running /\ GetResult("AAAAAA")
    \/ \E r \in ReqIds : Running /\ CatalogReturns(r)
    \/ \E r \in ReqIds : Running /\ CatalogFails(r)
    \/ Running /\ Reroll("AAAAAA")

SpecOutage == InitOutage /\ [][NextOutage]_vars

-----------------------------------------------------------------------------
(* Properties *)

\* request r leaves calculateMatch in this step, having stored its list
Stores(r) == r \in DOMAIN reqs /\ r \notin DOMAIN reqs'

\* the number of places of seq that hold x
Count(seq, x) == Cardinality({i \in DOMAIN seq : seq[i] = x})

\* C1 (as claimed): a session's candidate list is assigned at most once:
\* whenever a calculateMatch stores its list, no calculateMatch has stored one
\* in that session before (matchedCriteria is still null), for every
\* interleaving of GET /result requests.
C1_AssignedOnce ==
    [][\A r \in DOMAIN reqs :
         Stores(r) => heap[reqs[r].obj].matchedCriteria = None]_vars

\* C2 (as claimed): a GET /result that directly follows a completed GET /result
\* of the same session returns the same list in the same order and starts no
\* computation, whatever the length of the first list.
C2_SecondIsCached ==
    [][(ret.op = "result" /\ ret.status = 200 /\ GetResult(ret.code))
         => /\ reqs' = reqs
            /\ ret'.status = 200
            /\ ret'.movies = ret.movies]_vars

\* two non-null ranges with an empty intersection
DisjointRanges(range1, range2) ==
    /\ range1 # None
    /\ range2 # None
    /\ Max(range1[1].min, range2[1].min) > Min(range1[1].max, range2[1].max)

\* C3 (as claimed): a calculateMatch of a duo session whose two runtime ranges
\* (or year ranges) do not overlap stores an empty candidate list, whatever
\* the catalog.
C3_DisjointMatchesNothing ==
    [][\A r \in DOMAIN reqs :
         (/\ Stores(r)
          /\ reqs[r].prefs2 # None
          /\ \/ DisjointRanges(reqs[r].prefs1.runtimeRange,
                               reqs[r].prefs2[1].runtimeRange)
             \/ DisjointRanges(reqs[r].prefs1.yearRange,
                               reqs[r].prefs2[1].yearRange))
         => heap'[reqs[r].obj].matchedMovies = <<>>]_vars

\* C4: a session never has more than 2 users, and no step takes a user out of
\* a session object: the users present stay, in place, so a session that had
\* a successful join never has 0 users again.
C4_UserCount ==
    [][\A o \in DOMAIN heap' :
         /\ Len(heap'[o].users) <= 2
         /\ o \in DOMAIN heap =>
              /\ Len(heap'[o].users) >= Len(heap[o].users)
              /\ \A i \in DOMAIN heap[o].users :
                   heap'[o].users[i].id = heap[o].users[i].id]_vars

\* C4 witness: a third user has just been refused by a session with two users
C4_Witness ==
    /\ ret.op = "join"
    /\ ret.status = 404
    /\ HasSession(ret.code)
    /\ Len(getSession(ret.code).users) = 2

\* C5: a join with a userId the session already has, under any name, answers
\* success and changes nothing: not the user count, nor that user's name,
\* preferences, join time, votes or voting-complete flag.
C5_JoinIdempotent ==
    [][\A userId \in UserIds, how \in JoinInputs :
         (/\ ret'.op = "join"
          /\ ret'.code = how.code
          /\ HasSession(how.code)
          /\ HasUser(getSession(how.code).users, userId)
          /\ JoinSession(how.code, userId, how.name))
         => /\ ret'.status = 200
            /\ heap' = heap
            /\ sessions' = sessions]_vars

\* C5 witness: the only user of a session, who has preferences, votes and an
\* earlier join time, has just joined again (through the lower-case code)
C5_Witness ==
    /\ ret.op = "join"
    /\ ret.status = 200
    /\ ret.code = "aaaaaa"
    /\ LET session == getSession(ret.code)
       IN /\ Len(session.users) = 1
          /\ session.users[1].preferences # None
          /\ session.users[1].votingComplete
          /\ session.users[1].joinedAt < now

\* C6: for every session, the four buckets of getVotingResults hold each
\* movie of the candidate list exactly once between them and nothing else.
C6_TallyPartition ==
    \A o \in DOMAIN heap :
       LET session == heap[o]
           results == getVotingResults(session)
           all == results.bothYes \o results.user1No \o results.user2No
                    \o results.bothNo
       IN \A movie \in Range(all) \cup Range(session.matchedMovies) :
            Count(all, movie) = Count(session.matchedMovies, movie)

\* C6 witness: two users, two candidates, one accepted and one refused by both
C6_Witness ==
    \E o \in DOMAIN heap :
       /\ Len(heap[o].users) = 2
       /\ Len(heap[o].matchedMovies) = 2
       /\ Len(getVotingResults(heap[o]).bothYes) = 1
       /\ Len(getVotingResults(heap[o]).bothNo) = 1

\* user k of the session has a vote for the movie and it is a yes
SaidYes(session, k, movie) ==
    /\ movie.id \in DOMAIN session.users[k].votes
    /\ session.users[k].votes[movie.id] = TRUE

\* C7: in a two-user session each candidate goes by the two votes, a missing
\* vote counting as no: both yes -> bothYes, both no -> bothNo, only user 1
\* no -> user1No, only user 2 no -> user2No; each bucket keeps list order.
C7_DuoClassification ==
    \A o \in DOMAIN heap :
       LET session == heap[o]
           results == getVotingResults(session)
           movies == Range(session.matchedMovies)
       IN Len(session.users) = 2 =>
            /\ results.bothYes = FilterSeq(session.matchedMovies,
                 {m \in movies : SaidYes(session, 1, m) /\ SaidYes(session, 2, m)})
            /\ results.bothNo = FilterSeq(session.matchedMovies,
                 {m \in movies : ~SaidYes(session, 1, m) /\ ~SaidYes(session, 2, m)})
            /\ results.user1No = FilterSeq(session.matchedMovies,
                 {m \in movies : ~SaidYes(session, 1, m) /\ SaidYes(session, 2, m)})
            /\ results.user2No = FilterSeq(session.matchedMovies,
                 {m \in movies : SaidYes(session, 1, m) /\ ~SaidYes(session, 2, m)})

\* C7 witness: the tally was returned for two users and two candidates; user 2
\* never voted on a movie user 1 accepted, and it is in user2No
C7_Witness ==
    /\ ret.op = "votingResults"
    /\ ret.status = 200
    /\ LET session == getSession(ret.code)
       IN /\ Len(session.users) = 2
          /\ Len(session.matchedMovies) = 2
          /\ \E j \in 1 .. 2 :
               /\ session.matchedMovies[j].id \notin DOMAIN session.users[2].votes
               /\ ret.user2No = <<session.matchedMovies[j]>>
          /\ Len(ret.user1No) = 1

\* C8: in a one-user session the candidates the user accepted are bothYes, in
\* list order, all the others (refused or not voted) are user1No, and user2No
\* and bothNo are empty.
C8_SoloClassification ==
    \A o \in DOMAIN heap :
       LET session == heap[o]
           results == getVotingResults(session)
           movies == Range(session.matchedMovies)
       IN Len(session.users) = 1 =>
            /\ results.bothYes = FilterSeq(session.matchedMovies,
                 {m \in movies : SaidYes(session, 1, m)})
            /\ results.user1No = FilterSeq(session.matchedMovies,
                 {m \in movies : ~SaidYes(session, 1, m)})
            /\ results.user2No = <<>>
            /\ results.bothNo = <<>>

\* C8 witness: the tally was returned to a single user who accepted one of two
\* candidates and refused the other
C8_Witness ==
    /\ ret.op = "votingResults"
    /\ ret.status = 200
    /\ Len(getSession(ret.code).users) = 1
    /\ Len(ret.bothYes) = 1
    /\ Len(ret.user1No) = 1

\* C9: GET /voting-results answers with the four buckets exactly when the
\* session exists, has at least one user and every user has voting-complete
\* set; otherwise it answers with a failure that carries no bucket.
C9_TallyOnlyWhenComplete ==
    ret.op = "votingResults" =>
       LET complete ==
             /\ HasSession(ret.code)
             /\ Len(getSession(ret.code).users) >= 1
             /\ \A i \in DOMAIN getSession(ret.code).users :
                  getSession(ret.code).users[i].votingComplete
       IN /\ ret.status = 200 <=> complete
          /\ ret.status # 200 => ret.status \in {400, 404}
          /\ {"bothYes", "user1No", "user2No", "bothNo"} \subseteq DOMAIN ret
               <=> complete

\* C9 witness: the tally was returned to two users who both finished voting
C9_Witness ==
    /\ ret.op = "votingResults"
    /\ ret.status = 200
    /\ Len(getSession(ret.code).users) = 2
    /\ Len(getSession(ret.code).matchedMovies) = 2

\* C10: whenever a session's candidate list is non-empty its cursor is an
\* index of the list: 0 <= currentIndex <= len - 1.
C10_CursorInRange ==
    \A o \in DOMAIN heap :
       Len(heap[o].matchedMovies) > 0 =>
          /\ 0 <= heap[o].currentIndex
          /\ heap[o].currentIndex <= Len(heap[o].matchedMovies) - 1

\* C10 witness: a reroll has just answered with the cursor on the last of
\* three candidates
C10_Witness ==
    /\ ret.op = "reroll"
    /\ ret.status = 200
    /\ Len(getSession(ret.code).matchedMovies) = 3
    /\ getSession(ret.code).currentIndex = 2
    /\ ret.isLast

\* C11: navigation saturates. A previous answered while the cursor is at 0
\* leaves the cursor at 0 and the current movie as it was and reports
\* isFirst; a reroll answered while the cursor is at the last index leaves
\* the cursor there and the current movie as it was and reports isLast.
C11_Saturates ==
    [][/\ (/\ ret'.op = "previous"
           /\ ret'.status = 200
           /\ getSession(ret'.code).currentIndex = 0)
          => /\ heap'[SessionRef(ret'.code)].currentIndex = 0
             /\ heap'[SessionRef(ret'.code)].result
                  = getSession(ret'.code).result
             /\ ret'.result = getSession(ret'.code).result
             /\ ret'.isFirst
       /\ (/\ ret'.op = "reroll"
           /\ ret'.status = 200
           /\ getSession(ret'.code).currentIndex
                = Len(getSession(ret'.code).matchedMovies) - 1)
          => /\ heap'[SessionRef(ret'.code)].currentIndex
                  = Len(getSession(ret'.code).matchedMovies) - 1
             /\ heap'[SessionRef(ret'.code)].result
                  = getSession(ret'.code).result
             /\ ret'.result = getSession(ret'.code).result
             /\ ret'.isLast]_vars

\* C11 witness: a previous has just been answered in a session whose list
\* holds a single movie, so the cursor was at 0 and could not move
C11_Witness ==
    /\ ret.op = "previous"
    /\ ret.status = 200
    /\ Len(getSession(ret.code).matchedMovies) = 1
    /\ ret.isFirst
    /\ ret.result = Some(getSession(ret.code).matchedMovies[1])

\* the include-watched flag of the users whose preferences a computation read
IncludeWatched(prefs1, prefs2) ==
    /\ prefs1.includeWatched
    /\ prefs2 # None => prefs2[1].includeWatched

\* C12: the list a calculateMatch stores and returns holds no watched movie
\* unless every user whose preferences it read (user 1 alone in solo mode)
\* has include-watched set.
C12_WatchedExcluded ==
    [][\A r \in DOMAIN reqs :
         (Stores(r) /\ ~IncludeWatched(reqs[r].prefs1, reqs[r].prefs2))
         => \A k \in DOMAIN ret'.movies : ~ret'.movies[k].watched]_vars

\* C12 witness: a result was returned to two users of whom one accepts watched
\* movies and the other does not, in a library that has a watched comedy;
\* the list holds the unwatched comedy only
C12_Witness ==
    /\ ret.op = "result"
    /\ ret.status = 200
    /\ LET session == getSession(ret.code)
       IN /\ Len(session.users) = 2
          /\ session.users[1].preferences = Some(WantsComedy)
          /\ session.users[2].preferences = Some(Unwatched)
          /\ session.matchedCriteria # None
          /\ session.matchedCriteria[1].genres = {"Comedy"}
          /\ ret.movies # <<>>
          /\ \A k \in DOMAIN ret.movies : ret.movies[k].title = "Up"

\* the movie has a genre of the set, or the set is empty
SharesGenre(movie, genres) == genres = {} \/ movie.genres \cap genres # {}

\* C13 (as claimed): every movie of the list a calculateMatch stores and
\* returns shares a genre with the genre set of each user whose preferences
\* it read; and when both sets are non-empty and no movie of the catalog
\* meets both, the response has an empty list, a null result and
\* totalMatches 0.
C13_GenresOfEach ==
    [][\A r \in DOMAIN reqs :
         Stores(r) =>
           LET prefs1 == reqs[r].prefs1
               prefs2 == reqs[r].prefs2
           IN /\ \A k \in DOMAIN ret'.movies :
                   /\ SharesGenre(ret'.movies[k], prefs1.genres)
                   /\ prefs2 # None =>
                        SharesGenre(ret'.movies[k], prefs2[1].genres)
              /\ (/\ prefs2 # None
                  /\ prefs1.genres # {}
                  /\ prefs2[1].genres # {}
                  /\ \A k \in DOMAIN catalog :
                        \/ catalog[k].genres \cap prefs1.genres = {}
                        \/ catalog[k].genres \cap prefs2[1].genres = {})
                 => /\ ret'.movies = <<>>
                    /\ ret'.result = None
                    /\ ret'.totalMatches = 0]_vars

\* the number of catalog movies that pass the filter of calculateMatch
Passing(prefs1, prefs2) ==
    Cardinality({k \in DOMAIN catalog :
                   MatchesCriteria(catalog[k], prefs1, prefs2)})

\* C14: when a calculateMatch that started with an empty rating cache stores
\* its list, it has looked up exactly min(number of catalog movies passing
\* the filter, session.movieCount) movies (the cache has that many entries);
\* the list has at most session.movieCount entries, and each entry is a
\* catalog movie that passes the filter, merged with its cache entry.
C14_Budget ==
    [][\A r \in DOMAIN reqs :
         Stores(r) =>
           LET prefs1 == reqs[r].prefs1
               prefs2 == reqs[r].prefs2
               budget == heap[reqs[r].obj].movieCount
           IN /\ Cardinality(DOMAIN ratingsCache')
                   = Min(Passing(prefs1, prefs2), budget)
              /\ Len(ret'.movies) <= budget
              /\ \A k \in DOMAIN ret'.movies :
                   \E j \in DOMAIN catalog :
                      /\ MatchesCriteria(catalog[j], prefs1, prefs2)
                      /\ CacheKey(catalog[j].title, catalog[j].year)
                           \in DOMAIN ratingsCache'
                      /\ ret'.movies[k] = enrichMovieWithRatings(catalog[j],
                           ratingsCache'[CacheKey(catalog[j].title,
                                                  catalog[j].year)])]_vars

\* C14 witness: six movies pass the filter, the budget is 5, and the list
\* returned holds five movies
C14_Witness ==
    /\ ret.op = "result"
    /\ ret.status = 200
    /\ getSession(ret.code).movieCount = 5
    /\ getSession(ret.code).users[1].preferences = Some(AnyMovie)
    /\ ret.totalMatches = 5
    /\ Cardinality(DOMAIN ratingsCache) = 5

\* max(t1 ?? 0, t2 ?? 0), null when 0
Threshold(t1, t2) ==
    LET m == Max(IF t1 = Null THEN 0 ELSE t1, IF t2 = Null THEN 0 ELSE t2)
    IN IF m = 0 THEN Null ELSE m

\* a known rating is not below a set threshold
Meets(rating, threshold) ==
    (threshold # Null /\ rating # Null) => rating >= threshold

\* C15 (as claimed): in the list a calculateMatch stores and returns, every
\* movie with a known IMDb, RT critic or RT audience rating has that rating
\* at or above the combined threshold of that source.
C15_RatingThresholds ==
    [][\A r \in DOMAIN reqs :
         Stores(r) =>
           LET prefs1 == reqs[r].prefs1
               prefs2 == IF reqs[r].prefs2 = None
                         THEN [minImdbRating |-> Null,
                               minRtCriticRating |-> Null,
                               minRtAudienceRating |-> Null]
                         ELSE reqs[r].prefs2[1]
           IN \A k \in DOMAIN ret'.movies :
                /\ Meets(ret'.movies[k].imdbRating,
                         Threshold(prefs1.minImdbRating,
                                   prefs2.minImdbRating))
                /\ Meets(ret'.movies[k].rtCriticRating,
                         Threshold(prefs1.minRtCriticRating,
                                   prefs2.minRtCriticRating))
                /\ Meets(ret'.movies[k].rtAudienceRating,
                         Threshold(prefs1.minRtAudienceRating,
                                   prefs2.minRtAudienceRating))]_vars

\* C16: a run of the expiry sweep deletes every session created more than 24
\* hours before, whatever happened to it since, and leaves every session
\* created less than 24 hours before in the map, untouched.
C16_SweepByAge ==
    [][ret'.op = "cleanup" =>
         \A c \in DOMAIN sessions :
            LET age == now - heap[sessions[c]].createdAt
            IN /\ age > MaxAge => c \notin DOMAIN sessions'
               /\ age < MaxAge =>
                    /\ c \in DOMAIN sessions'
                    /\ sessions'[c] = sessions[c]
                    /\ heap'[sessions[c]] = heap[sessions[c]]]_vars

\* C16 witness: a sweep has just run; session BBBBBB, less than 24 hours old
\* and joined, is in the map; session AAAAAA, which a user joined after its
\* creation and whose object a suspended GET /result still holds, was created
\* more than 24 hours ago and is out of the map
C16_Witness ==
    /\ ret.op = "cleanup"
    /\ HasSession("BBBBBB")
    /\ now - getSession("BBBBBB").createdAt < MaxAge
    /\ getSession("BBBBBB").users # <<>>
    /\ ~HasSession("AAAAAA")
    /\ \E r \in DOMAIN reqs :
          /\ heap[reqs[r].obj].code = "AAAAAA"
          /\ now - heap[reqs[r].obj].createdAt > MaxAge
          /\ heap[reqs[r].obj].users[1].joinedAt
               > heap[reqs[r].obj].createdAt

\* C17 (as claimed): a createSession adds exactly one session to the map and
\* leaves every session that was in the map reachable under its code, its
\* object and its state unchanged.
C17_CreateIsFresh ==
    [][ret'.op = "create" =>
         /\ Cardinality(DOMAIN sessions') = Cardinality(DOMAIN sessions) + 1
         /\ \A c \in DOMAIN sessions :
               /\ c \in DOMAIN sessions'
               /\ sessions'[c] = sessions[c]
               /\ heap'[sessions[c]] = heap[sessions[c]]]_vars

\* C18 (as claimed): no step takes an entry out of the rating cache or
\* replaces a non-null field of an entry (a rating, imdbId, backdrop) by
\* null, whatever the entry and whatever the providers answer.
C18_NeverErased ==
    [][\A key \in DOMAIN ratingsCache :
         /\ key \in DOMAIN ratingsCache'
         /\ \A f \in {"imdbRating", "rtCriticRating", "rtAudienceRating",
                       "tmdbRating"} :
               ratingsCache[key][f] \notin {Null, Absent}
                 => ratingsCache'[key][f] # Null
         /\ \A f \in {"imdbId", "backdrop"} :
               ratingsCache[key][f] \notin {"", NoField}
                 => ratingsCache'[key][f] # ""]_vars

\* C19: a submitPreferences for an unknown code or for a userId that has not
\* joined fails and changes nothing; any other one succeeds, makes the
\* submitted set that user's preferences and leaves the rest of the user, the
\* other user, the candidate list, the current movie and the cursor as they
\* were.
C19_SubmitPreferences ==
    [][\A userId \in UserIds, p \in {AnyMovie, WantsComedy} :
         (ret'.op = "preferences"
            /\ SubmitPreferences("AAAAAA", userId, p))
         => IF ~HasSession("AAAAAA")
               \/ ~HasUser(getSession("AAAAAA").users, userId)
            THEN /\ ret'.status = 404
                 /\ heap' = heap
                 /\ sessions' = sessions
            ELSE LET old == getSession("AAAAAA")
                     new == heap'[SessionRef("AAAAAA")]
                     i == UserIndex(old.users, userId)
                 IN /\ ret'.status = 200
                    /\ sessions' = sessions
                    /\ Len(new.users) = Len(old.users)
                    /\ new.users[i].preferences = Some(p)
                    /\ new.users[i].votes = old.users[i].votes
                    /\ new.users[i].votingComplete
                         = old.users[i].votingComplete
                    /\ new.users[i].name = old.users[i].name
                    /\ \A k \in DOMAIN old.users \ {i} :
                          new.users[k] = old.users[k]
                    /\ new.matchedMovies = old.matchedMovies
                    /\ new.currentIndex = old.currentIndex
                    /\ new.result = old.result]_vars

\* C19 witness: the second of two users, who has voted on a computed list
\* that is being browsed, has just replaced their preferences
C19_Witness ==
    /\ ret.op = "preferences"
    /\ ret.status = 200
    /\ LET session == getSession(ret.code)
       IN /\ Len(session.users) = 2
          /\ session.users[1].preferences = Some(AnyMovie)
          /\ session.users[2].preferences = Some(WantsComedy)
          /\ session.matchedCriteria # None
          /\ session.matchedCriteria[1].genresSkipped
          /\ session.users[2].votes # <<>>
          /\ session.currentIndex = 1

\* C20: a vote for an unknown session or by a user who has not joined fails
\* and changes nothing; any other one succeeds, makes the given value that
\* user's vote for the movie id, keeps the user's other votes (so a repeated
\* id does not change the number of votes), and reports votingComplete
\* exactly when the user's number of voted ids is at least the length of the
\* candidate list.
C20_Vote ==
    [][\A userId \in {"u1", "u2"}, movieId \in {"m2", "m3"}, vote \in BOOLEAN :
         (ret'.op = "vote" /\ Vote("AAAAAA", userId, movieId, vote))
         => IF ~HasSession("AAAAAA")
               \/ ~HasUser(getSession("AAAAAA").users, userId)
            THEN /\ ret'.status = 404
                 /\ heap' = heap
                 /\ sessions' = sessions
            ELSE LET old == getSession("AAAAAA")
                     new == heap'[SessionRef("AAAAAA")]
                     i == UserIndex(old.users, userId)
                     before == old.users[i].votes
                     after == new.users[i].votes
                 IN /\ ret'.status = 200
                    /\ ret'.success
                    /\ DOMAIN after = DOMAIN before \cup {movieId}
                    /\ after[movieId] = vote
                    /\ \A k \in DOMAIN before \ {movieId} :
                          after[k] = before[k]
                    /\ ret'.votingComplete
                         <=> Cardinality(DOMAIN after)
                               >= Len(old.matchedMovies)]_vars

\* C20 witness: a vote has just completed the voting of a user who has a vote
\* on each of the two candidates, one of them a no
C20_Witness ==
    /\ ret.op = "vote"
    /\ ret.status = 200
    /\ ret.votingComplete
    /\ LET session == getSession(ret.code)
       IN /\ Len(session.matchedMovies) = 2
          /\ \E i \in DOMAIN session.users :
                /\ DOMAIN session.users[i].votes = {"m2", "m3"}
                /\ ~session.users[i].votes["m2"]
                /\ session.users[i].votes["m3"]

\* C21 (as claimed): a user whose voting-complete flag is set has a recorded
\* vote for every movie of the session's candidate list.
C21_CompleteMeansVotedAll ==
    \A o \in DOMAIN heap :
       \A i \in DOMAIN heap[o].users :
          heap[o].users[i].votingComplete =>
             \A k \in DOMAIN heap[o].matchedMovies :
                heap[o].matchedMovies[k].id \in DOMAIN heap[o].users[i].votes

\* C22 (as claimed): in a session whose users have all submitted, every movie
\* of a non-empty candidate list passes the catalog filter (watched, genres of
\* each user, combined year and runtime ranges) computed from the preferences
\* the users of the session have now.
C22_ListMatchesCurrentPrefs ==
    \A o \in DOMAIN heap :
       LET session == heap[o]
       IN (allUsersSubmitted(session) /\ session.matchedMovies # <<>>)
          => \A k \in DOMAIN session.matchedMovies :
                MatchesCriteria(session.matchedMovies[k],
                                session.users[1].preferences[1],
                                IF Len(session.users) > 1
                                THEN session.users[2].preferences
                                ELSE None)

\* C23 (as claimed): allVotingComplete is stable: no step on a session for
\* which it is true makes it false while the session object exists.
C23_TallyStaysAvailable ==
    [][\A o \in DOMAIN heap \cap DOMAIN heap' :
         allVotingComplete(heap[o]) => allVotingComplete(heap'[o])]_vars

\* C24 (as claimed): when a calculateMatch stores its list, the cursor is 0 and
\* the current movie is the first element of that list, or null when the list
\* is empty; and after every step a non-null current movie is an element of
\* the session's candidate list.
C24_ResultOfStoredList ==
    [][/\ \A r \in DOMAIN reqs :
            Stores(r) =>
              LET session == heap'[reqs[r].obj]
              IN /\ session.currentIndex = 0
                 /\ session.result =
                      IF session.matchedMovies # <<>>
                      THEN Some(session.matchedMovies[1])
                      ELSE None
       /\ \A o \in DOMAIN heap' :
            heap'[o].result # None
              => heap'[o].result[1] \in Range(heap'[o].matchedMovies)]_vars

\* C25: whenever a session's candidate list is non-empty, the current movie
\* is the candidate at the cursor: result = matchedMovies[currentIndex].
C25_ResultAtCursor ==
    \A o \in DOMAIN heap :
       heap[o].matchedMovies # <<>> =>
          /\ heap[o].currentIndex + 1 \in DOMAIN heap[o].matchedMovies
          /\ heap[o].result
               = Some(heap[o].matchedMovies[heap[o].currentIndex + 1])

\* C25 witness: a previous has just moved the cursor back from the last to
\* the middle one of three candidates
C25_Witness ==
    /\ ret.op = "previous"
    /\ ret.status = 200
    /\ ~ret.isFirst
    /\ Len(getSession(ret.code).matchedMovies) = 3
    /\ getSession(ret.code).currentIndex = 1
    /\ getSession(ret.code).result = Some(getSession(ret.code).matchedMovies[2])

\* C26 (as claimed): the expiry sweep takes no session out of the map while a
\* calculateMatch on it is suspended, so that when the calculateMatch resumes
\* and stores its list the session is still found under its code.
C26_SweepSparesInFlight ==
    [][/\ ret'.op = "cleanup" =>
            \A r \in DOMAIN reqs :
               \A c \in DOMAIN sessions :
                  sessions[c] = reqs[r].obj
                    => (c \in DOMAIN sessions' /\ sessions'[c] = sessions[c])
       /\ \A r \in DOMAIN reqs :
            Stores(r) =>
              /\ toUpperCase(reqs[r].code) \in DOMAIN sessions'
              /\ sessions'[toUpperCase(reqs[r].code)] = reqs[r].obj]_vars

\* C27 (as claimed): a vote on a session in which some user has not submitted
\* preferences is answered with a failure, records no vote and sets no
\* voting-complete flag.
C27_VoteNeedsPreferences ==
    [][(/\ ret'.op = "vote"
        /\ HasSession(ret'.code)
        /\ \E i \in DOMAIN getSession(ret'.code).users :
              getSession(ret'.code).users[i].preferences = None)
       => /\ ret'.status # 200
          /\ heap' = heap]_vars

\* the number of users of the session who have preferences
Submitted(session) ==
    Cardinality({i \in DOMAIN session.users :
                   session.users[i].preferences # None})

\* C28: a GET /result on a session without users, or with a user whose
\* preferences are null, fails, starts no computation and leaves the session
\* (candidate list, cursor, current movie, matched criteria) unchanged; one on
\* a session whose 1 or 2 users all have preferences does not fail that way;
\* and the allSubmitted flag a preferences response carries is true exactly
\* when each of the 1 or 2 users has preferences.
C28_NeedsAllSubmitted ==
    [][/\ (ret'.op \in {"result", "pending"} /\ HasSession(ret'.code)
             /\ GetResult(ret'.code))
          => LET session == getSession(ret'.code)
                 n == Len(session.users)
             IN IF n \in {1, 2} /\ Submitted(session) = n
                THEN ret'.status # 400
                ELSE /\ ret'.status = 400
                     /\ reqs' = reqs
                     /\ heap' = heap
       /\ (ret'.op = "preferences" /\ ret'.status = 200)
          => LET session == heap'[SessionRef(ret'.code)]
                 n == Len(session.users)
             IN ret'.allSubmitted <=> (n \in {1, 2} /\ Submitted(session) = n)]_vars

\* C28 witness: a GET /result has just been refused in a session of two users
\* of whom only the first has preferences
C28_Witness ==
    /\ ret.op = "result"
    /\ ret.status = 400
    /\ LET session == getSession(ret.code)
       IN /\ Len(session.users) = 2
          /\ session.users[1].preferences # None
          /\ session.users[2].preferences = None
          /\ session.matchedMovies = <<>>
          /\ session.result = None

\* every lookup for the entry failed: it has no rating and no id
FailedEntry(entry) ==
    /\ entry.imdbRating = Null
    /\ entry.rtCriticRating = Null
    /\ entry.rtAudienceRating = Null
    /\ entry.tmdbRating = Null
    /\ entry.imdbId = ""

\* C29: when a calculateMatch stores its list, every catalog movie that passes
\* the filter (all are within the budget) has a cache entry; a candidate whose lookups all failed is in the list with null
\* ratings; and every candidate is in the list, merged with its entry,
\* exactly when its known IMDb and RT critic ratings meet the thresholds.
C29_FailureKeepsCandidate ==
    [][\A r \in DOMAIN reqs :
         Stores(r) =>
           LET prefs1 == reqs[r].prefs1
               candidates ==
                   FilterSeq(catalog,
                             {m \in Range(catalog) :
                                MatchesCriteria(m, prefs1, reqs[r].prefs2)})
               Entry(m) == ratingsCache'[CacheKey(m.title, m.year)]
               Kept(m) == enrichMovieWithRatings(m, Entry(m))
                            \in Range(ret'.movies)
           IN /\ \A k \in DOMAIN candidates :
                   LET m == candidates[k]
                   IN /\ CacheKey(m.title, m.year) \in DOMAIN ratingsCache'
                      /\ FailedEntry(Entry(m)) =>
                           /\ Kept(m)
                           /\ \E j \in DOMAIN ret'.movies :
                                 /\ ret'.movies[j].id = m.id
                                 /\ ret'.movies[j].imdbRating = Null
                                 /\ ret'.movies[j].rtCriticRating = Null
                      /\ Kept(m) <=>
                           /\ Meets(Entry(m).imdbRating,
                                    Threshold(prefs1.minImdbRating, Null))
                           /\ Meets(Entry(m).rtCriticRating,
                                    Threshold(prefs1.minRtCriticRating, Null))
              /\ \A j \in DOMAIN ret'.movies :
                   \E k \in DOMAIN candidates :
                      ret'.movies[j].id = candidates[k].id]_vars

\* C29 witness: a result was returned under an IMDb threshold of 8.0 with two
\* movies, one whose lookups all failed (null ratings) and one rated 8.3
C29_Witness ==
    /\ ret.op = "result"
    /\ ret.status = 200
    /\ ret.totalMatches = 2
    /\ \E j, k \in DOMAIN ret.movies :
          /\ ret.movies[j].imdbRating = Null
          /\ ret.movies[j].imdbId = ""
          /\ ret.movies[k].imdbRating = 83
    /\ getSession(ret.code).users[1].preferences = Some(GoodComedy)

\* C30 (as claimed): when getAllMovies fails inside a calculateMatch, the
\* GET /result request is answered (with the result or with a failure
\* status), and every session is still in the map with its state unchanged.
C30_CatalogFailureRecovered ==
    [][\A r \in DOMAIN reqs :
         (reqs[r].pc = "catalog" /\ r \notin DOMAIN reqs'
            /\ CatalogFails(r))
         => /\ ret'.op = "result"
            /\ ret'.status \in {200, 500, 502, 503}
            /\ sessions' = sessions
            /\ \A c \in DOMAIN sessions :
                  heap'[sessions[c]] = heap[sessions[c]]]_vars

\* C31: no step clears the voting-complete flag of a user of a session
\* object, and a vote by a user whose flag is set, on a movie id already voted
\* or on a new one, is answered with success.
C31_FlagMonotone ==
    [][/\ \A o \in DOMAIN heap \cap DOMAIN heap' :
            \A i \in DOMAIN heap[o].users :
               heap[o].users[i].votingComplete
                 => /\ i \in DOMAIN heap'[o].users
                    /\ heap'[o].users[i].votingComplete
       /\ \A userId \in {"u1", "u2"} :
            (/\ ret'.op = "vote"
             /\ HasSession("AAAAAA")
             /\ HasUser(getSession("AAAAAA").users, userId)
             /\ getSession("AAAAAA").users[
                  UserIndex(getSession("AAAAAA").users, userId)].votingComplete
             /\ \E movieId \in {"m2", "m3"}, vote \in BOOLEAN :
                   Vote("AAAAAA", userId, movieId, vote))
            => /\ ret'.status = 200
               /\ ret'.success]_vars

\* C31 witness: a user who had completed voting before the list of two movies
\* was stored has just voted again: the answer is a success that reports
\* voting as not complete, and the stored flag is still set
C31_Witness ==
    /\ ret.op = "vote"
    /\ ret.status = 200
    /\ ~ret.votingComplete
    /\ Len(getSession(ret.code).matchedMovies) = 2
    /\ \E i \in DOMAIN getSession(ret.code).users :
          /\ getSession(ret.code).users[i].votingComplete
          /\ Cardinality(DOMAIN getSession(ret.code).users[i].votes) = 1

\* C32: a join under a code the map does not have fails and creates no
\* session; a join by a userId that is not in a session of two users fails;
\* either way the map and every session object stay as they were.
C32_JoinRefused ==
    [][/\ (ret'.op = "join" /\ ~HasSession(ret'.code))
          => /\ ret'.status = 404
             /\ sessions' = sessions
             /\ heap' = heap
       /\ \A userId \in UserIds, how \in JoinInputs :
            (/\ ret'.op = "join"
             /\ ret'.code = how.code
             /\ HasSession(how.code)
             /\ Len(getSession(how.code).users) = 2
             /\ ~HasUser(getSession(how.code).users, userId)
             /\ JoinSession(how.code, userId, how.name))
            => /\ ret'.status = 404
               /\ sessions' = sessions
               /\ heap' = heap]_vars

\* C32 witness: a join has just been refused under the code of a session the
\* sweep had deleted; the map is empty
C32_Witness ==
    /\ ret.op = "join"
    /\ ret.status = 404
    /\ ~HasSession(ret.code)
    /\ now > MaxAge
    /\ sessions = <<>>
    /\ heap = <<>>

\* x is inside the range, bounds inclusive; a null range holds every number
InRange(x, range) ==
    range = None \/ (range[1].min <= x /\ x <= range[1].max)

\* C33 (as claimed): every movie of the list a calculateMatch stores and
\* returns has its runtime and its year inside the range of each user whose
\* preferences it read, which is to say inside the intersection
\* [max(min1, min2), min(max1, max2)], a null range contributing no bound.
C33_InsideCombinedRange ==
    [][\A r \in DOMAIN reqs :
         Stores(r) =>
           \A k \in DOMAIN ret'.movies :
              /\ InRange(ret'.movies[k].runtime, reqs[r].prefs1.runtimeRange)
              /\ InRange(ret'.movies[k].year, reqs[r].prefs1.yearRange)
              /\ reqs[r].prefs2 # None =>
                   /\ InRange(ret'.movies[k].runtime,
                              reqs[r].prefs2[1].runtimeRange)
                   /\ InRange(ret'.movies[k].year,
                              reqs[r].prefs2[1].yearRange)]_vars

\* request r is waiting for the OMDB retry of the entry it is reading
Retrying(rq, r) == r \in DOMAIN rq /\ rq[r].pc = "enrich" /\ rq[r].mode = "retry"

\* C34: a read of a cache entry starts an OMDB retry only when the entry has
\* imdbRating and imdbId both null, and when the retry is answered, with
\* ratings or with a failure, the read is over: the request goes on to the
\* next candidate or finishes, it does not retry the same entry again.
C34_OneRetryPerRead ==
    [][\A r \in ReqIds :
         /\ (Retrying(reqs', r)
               /\ ~(Retrying(reqs, r) /\ reqs'[r].i = reqs[r].i))
            => LET movie == reqs'[r].candidates[reqs'[r].i + 1]
                   entry == ratingsCache'[CacheKey(movie.title, movie.year)]
               IN entry.imdbRating = Null /\ entry.imdbId = ""
         /\ (Retrying(reqs, r) /\ r \in DOMAIN reqs' /\ reqs'[r] # reqs[r])
            => reqs'[r].i > reqs[r].i]_vars

\* C34 witness: the retry for an entry written under a rate limit has just
\* failed again; the result was returned with the movie unrated and the entry
\* still has no IMDb rating and no id
C34_Witness ==
    /\ ret.op = "result"
    /\ ret.status = 200
    /\ ret.totalMatches = 1
    /\ ret.movies[1].imdbRating = Null
    /\ ret.movies[1].imdbId = ""
    /\ ret.movies[1].tmdbRating # Null
    /\ \A key \in DOMAIN ratingsCache :
          /\ ratingsCache[key].imdbRating = Null
          /\ ratingsCache[key].imdbId = ""


\* request r of rq waits for the TMDB backfill of its current candidate
Backfilling(rq, r) ==
    r \in DOMAIN rq /\ rq[r].pc = "enrich" /\ rq[r].mode = "backfill"

\* the cache entry has the fields a TMDB lookup writes
HasTmdbFields(entry) == entry.tmdbRating # Absent /\ entry.backdrop # NoField

Unsaved(cache, file) == DOMAIN cache \ DOMAIN file

C37_FlagsDescribeCursor ==
    (ret.op \in {"reroll", "previous"} /\ ret.status = 200
     /\ HasSession(ret.code))
       => LET session == getSession(ret.code)
          IN /\ ret.isFirst = (session.currentIndex = 0)
             /\ ret.isLast
                  = (session.currentIndex = Len(session.matchedMovies) - 1)

\* C38 (as claimed): createSession stores min(max(size, 5), 100) for every
\* size a request carries and 25 for none, so the configured size of every
\* session is a number between 5 and 100.
C38_SizeWithinLimits ==
    \A o \in DOMAIN heap :
       heap[o].movieCount \in MinMovieCount .. MaxMovieCount


\* the two objects have the same value in every field outside `fields`
SameBut(a, b, fields) ==
    DOMAIN a = DOMAIN b /\ \A f \in DOMAIN a \ fields : a[f] = b[f]

\* C39: a reroll or a previous changes at most currentIndex and result of
\* the session it names; a vote at most votes and votingComplete of one user
\* of it; a join at most its users, by adding one; none of them changes
\* matchedMovies or matchedCriteria, any other session, the session map, the
\* cache or a suspended request.
C39_Frame ==
    [][ret'.op \in {"reroll", "previous", "vote", "join"} =>
         /\ sessions' = sessions
         /\ reqs' = reqs
         /\ ratingsCache' = ratingsCache
         /\ cacheFile' = cacheFile
         /\ catalog' = catalog
         /\ DOMAIN heap' = DOMAIN heap
         /\ \A o \in DOMAIN heap :
              IF HasSession(ret'.code) /\ o = SessionRef(ret'.code)
              THEN LET old == heap[o]
                       new == heap'[o]
                   IN CASE ret'.op \in {"reroll", "previous"} ->
                             SameBut(old, new, {"currentIndex", "result"})
                        [] ret'.op = "vote" ->
                             /\ SameBut(old, new, {"users"})
                             /\ DOMAIN new.users = DOMAIN old.users
                             /\ \E i \in DOMAIN old.users :
                                  /\ SameBut(old.users[i], new.users[i],
                                             {"votes", "votingComplete"})
                                  /\ \A j \in DOMAIN old.users \ {i} :
                                       new.users[j] = old.users[j]
                             \/ new = old
                        [] OTHER ->
                             /\ SameBut(old, new, {"users"})
                             /\ Len(new.users) \in
                                  {Len(old.users), Len(old.users) + 1}
                             /\ SubSeq(new.users, 1, Len(old.users)) = old.users
              ELSE heap'[o] = heap[o]]_vars

\* C39 witness: two sessions with lists; in AAAAAA the cursor is at the
\* second movie and the second user has voted, in BBBBBB the cursor is at the
\* first movie and nobody has voted
C39_Witness ==
    /\ ret.op = "vote"
    /\ ret.status = 200
    /\ ret.code = "AAAAAA"
    /\ HasSession("AAAAAA")
    /\ HasSession("BBBBBB")
    /\ getSession("AAAAAA").currentIndex = 1
    /\ Len(getSession("AAAAAA").users) = 2
    /\ getSession("AAAAAA").users[2].votes # <<>>
    /\ getSession("AAAAAA").users[1].votes = <<>>
    /\ Len(getSession("BBBBBB").matchedMovies) = 2
    /\ getSession("BBBBBB").currentIndex = 0
    /\ \A i \in DOMAIN getSession("BBBBBB").users :
          getSession("BBBBBB").users[i].votes = <<>>


\* C40 (as claimed): once GET /result has answered with the list of a
\* session, of any length including zero, and every user of the session
\* goes on to vote on each movie of the list, voting becomes complete and
\* GET /voting-results answers with the tally.
C40_VotingCompletes ==
    (ret.op = "result" /\ ret.status = 200)
       ~> (ret.op = "votingResults" /\ ret.status = 200)

====
